---- MODULE Spec2Model ----
(***************************************************************************)
(* Hermes gateway: circuit breaker, sliding-window limiter, TTL-LRU cache, *)
(* dispatcher, proxy executor and chat orchestrator, as state machines.    *)
(* Time is an integer clock `now` advanced by Tick; every component reads  *)
(* it where the code calls time.time().                                    *)
(***************************************************************************)
EXTENDS Integers, Sequences, FiniteSets, TLC

VARIABLES
    now,                \* time.time()
    (* ---- services/circuit_breaker.py ---- *)
    failure_threshold,  \* CircuitBreaker.failure_threshold
    recovery_timeout,   \* CircuitBreaker.recovery_timeout
    success_threshold,  \* CircuitBreaker.success_threshold
    circuits,           \* CircuitBreaker._circuits : key -> CircuitStats
    consecFail,         \* history: record_failure calls since the last record_success / reset, per key
    probePending,       \* history: a recovery probe was admitted and no outcome was recorded since, per key
    halfOpenSucc,       \* history: record_success calls made in half_open since the key entered it
    brk_last,           \* history: the breaker call made by the last step
    (* ---- services/rate_limiter.py ---- *)
    windows,            \* SlidingWindowLimiter._windows : key -> (slot index -> count)
    last_cleanup,       \* SlidingWindowLimiter._last_cleanup
    lim_last,           \* history: the limiter call made by the last step
    granted,            \* history: key -> (slot index -> checks allowed in the slot since the key was last reset)
    (* ---- services/cache_service.py ---- *)
    cache,              \* TTLCache._cache : the OrderedDict as a sequence, least recent first
    hits,               \* TTLCache._hits
    misses,             \* TTLCache._misses
    max_size,           \* TTLCache.max_size
    default_ttl,        \* TTLCache.default_ttl
    lastSet,            \* history: the last set(k, v, ttl) with a positive ttl, while its entry was not evicted, deleted or overwritten
    cache_last,         \* history: the cache call made by the last step
    recency,            \* history: the stored keys, least recently used (get hit or set) first
    (* ---- controllers/chat.py, services/dispatcher_service.py, services/proxy_service.py ---- *)
    chatMaxRetries,     \* the setting chatMaxRetries: <<>> when unset, <<n>> when stored
    cooldowns,          \* DispatcherService._cooldowns : <<provider id, model>> -> entry
    reqs,               \* the chat_completions calls in flight: request -> locals and position
    (* ---- services/routing_score_service.py ---- *)
    scorer_stats,       \* RoutingScoreService._stats : <<provider id, model>> -> ProviderStats
    (* ---- services/provider_manager.py, services/log_service.py ---- *)
    db,                 \* the providers table: provider id -> row
    tasks,              \* the background_sync_task coroutines created so far, in creation order
    syncing,            \* ProviderManagerService._syncing
    cat_last,           \* history: the provider-manager call made by the last step
    upstream_errors,    \* LogService._counters["upstream_errors"]
    fwd,                \* history: the forward_request call made last, and its stream while it is open
    (* ---- utils/model_normalizer.py ---- *)
    catalogs,           \* the models lists of the provider rows, in the order of get_all
    alias_last,         \* history: the alias-map or listing call made by the last step
    (* ---- services/dispatcher_service.py ---- *)
    dispatcher_settings, \* the settings dispatcher_*: <<>> when unset, <<n>> when stored
    penalty_counts,     \* DispatcherService._penalty_counts : <<provider id, model>> -> {count, lastResync}
    disp,               \* the get_provider_for_model call in flight: its locals and position
    disp_last,          \* history: the _is_available or penalize call made by the last step
    checks,             \* the _is_available calls in flight: call -> locals and position
    (* ---- services/log_service.py: LogBatcher ---- *)
    log_queue,          \* LogBatcher._queue: the entries, oldest first
    flushes,            \* the flush() calls made so far: their position and the entries they took
    written,            \* the rows of request_logs: <<entry, flush that wrote it>>
    added,              \* the number of add calls so far; entry n is the one of the n-th call
    batcher_running,    \* LogBatcher._running
    batch_last,         \* history: the add call made by the last step
    (* ---- services/log_service.py: LogService._listeners ---- *)
    listeners,          \* LogService._listeners: the subscribed queues
    queues,             \* the asyncio.Queue objects created by subscribe: queue -> its events, oldest first
    events,             \* the number of broadcast calls so far; event n is the payload of the n-th call
    sse_last,           \* history: the broadcast or unsubscribe call made by the last step
    (* ---- services/provider_manager.py: get_all over CacheService._providers_cache ---- *)
    gets,               \* the get_all calls made so far: their caller, position and list
    unlisted,           \* history: the <<provider id, model>> pairs handle_model_not_found removed
    prov_last           \* history: the get_all return or dispatcher decision of the last step

brkVars == <<failure_threshold, recovery_timeout, success_threshold,
             circuits, consecFail, probePending, halfOpenSucc, brk_last>>

limVars == <<windows, last_cleanup, lim_last, granted>>

cacheVars == <<cache, hits, misses, max_size, default_ttl, lastSet, cache_last, recency>>

chatVars == <<chatMaxRetries, cooldowns, reqs>>

scorerVars == <<scorer_stats>>

\* the variables of the components added after the chat path
catVars == <<db, tasks, syncing, cat_last>>

fwdVars == <<upstream_errors, fwd>>

aliasVars == <<catalogs, alias_last>>

dispVars == <<dispatcher_settings, penalty_counts, disp, disp_last, checks>>

batchVars == <<log_queue, flushes, written, added, batcher_running, batch_last>>

sseVars == <<listeners, queues, events, sse_last>>

\* the variables of the components added after the dispatcher
provVars == <<gets, unlisted, prov_last>>

lateVars == <<batchVars, sseVars, provVars>>

extVars == <<scorerVars, catVars, fwdVars, aliasVars, dispVars, lateVars>>

vars == <<now, brkVars, limVars, cacheVars, chatVars, extVars>>

None == "None"

(* ------------------------------ bounds --------------------------------- *)
MaxTime == 4                \* the clock runs 0..MaxTime
MaxFailureThreshold == 2    \* failure_threshold is drawn from 1..MaxFailureThreshold
MaxRecoveryTimeout == 2     \* recovery_timeout is drawn from 1..MaxRecoveryTimeout
MaxSuccessThreshold == 2    \* success_threshold is drawn from 1..MaxSuccessThreshold
MaxFailureCount == 3        \* record_failure is not called beyond this failure_count
LimMaxTime == 7             \* the clock of the limiter runs 0..LimMaxTime
max_requests == 2           \* SlidingWindowLimiter(max_requests=...)
window_seconds == 4         \* SlidingWindowLimiter(window_seconds=...)
slot_count == 2             \* SlidingWindowLimiter(slot_count=...)
cleanup_interval == 3       \* SlidingWindowLimiter(cleanup_interval=...)
CacheMaxTime == 3           \* the clock of the cache runs 0..CacheMaxTime
MaxMaxSize == 1             \* TTLCache(max_size=...) is drawn from 1..MaxMaxSize
MaxTtl == 2                 \* set is called with ttl None or 0..MaxTtl; default_ttl is MaxTtl
MaxGets == 2                \* get is called while _hits + _misses is below this
LruMaxSize == 2             \* max_size of the cache whose evictions are followed
ChatMaxTime == 2            \* the clock of the chat path runs 0..ChatMaxTime
MaxRetriesSetting == 2      \* a stored chatMaxRetries is drawn from 1..MaxRetriesSetting
ScorerMaxTicks == 2         \* the clock of the scorer runs for this many half-lives
MaxSamples == 3             \* update is not called once an arm has this many samples
ForwardMaxTicks == 1        \* the clock of the proxy executor runs for this many half-lives
MaxTasks == 3               \* background_sync_task coroutines created in a behaviour
CatalogMaxTicks == 1        \* the clock of the provider manager runs 0..CatalogMaxTicks
MaxCatalogModels == 4       \* identifiers stored in the catalogs of all providers together
DispatcherTick == 400       \* the clock of the dispatcher advances by this many seconds
DispatcherMaxTicks == 1     \* and does so this many times
MaxReads == 2               \* get_all calls made in a behaviour
ProvMaxTicks == 2           \* the clock of the provider list runs 0..ProvMaxTicks
CACHE_TTL_PROVIDERS == 1    \* config.CACHE_TTL_PROVIDERS (30 seconds when unset), in ticks
LOG_BATCH_SIZE == 2          \* config.LOG_BATCH_SIZE (LOG_BATCH_SIZE in the environment, 50 when unset)
maxlen == 3                  \* deque(maxlen=2000), scaled to the batch size
maxsize == 2                 \* asyncio.Queue(maxsize=100), scaled
MaxQueues == 3               \* subscribe is called at most this many times
MaxEvents == 4               \* broadcast is called at most this many times
MaxAdds == 6                 \* add is called at most this many times
MaxFlushes == 4              \* flush() is called at most this many times
MaxScore == 2               \* score_for returns a sample among 1..MaxScore
MaxScorerDen == 8           \* score_for is not called once a denominator of alpha or beta reaches this

(***************************************************************************)
(* Circuit breaker (services/circuit_breaker.py)                           *)
(***************************************************************************)
\* the keys of _circuits: the dispatcher and the proxy use "provider:<id>"
CircuitKeys == DOMAIN circuits

CircuitStats ==
    [state |-> "closed", failure_count |-> 0, success_count |-> 0,
     last_failure_time |-> 0, opened_at |-> 0]

CircuitStats_reset(stats) ==
    [stats EXCEPT !.failure_count = 0, !.success_count = 0]

\* is_allowed on the stats of one key at time t: the returned flag and the stats left behind
is_allowed_strict_timeout(stats, t) ==
    IF stats.state = "closed" THEN [ret |-> TRUE, stats |-> stats]
    ELSE IF stats.state = "open" THEN
        IF t - stats.opened_at > recovery_timeout
        THEN [ret |-> TRUE,
              stats |-> CircuitStats_reset([stats EXCEPT !.state = "half_open"])]
        ELSE [ret |-> FALSE, stats |-> stats]
    ELSE [ret |-> TRUE, stats |-> stats]

is_allowed(stats, t) ==
    IF stats.state = "closed" THEN [ret |-> TRUE, stats |-> stats]
    ELSE IF stats.state = "open" THEN
        IF t - stats.opened_at >= recovery_timeout
        THEN [ret |-> TRUE,
              stats |-> CircuitStats_reset([stats EXCEPT !.state = "half_open"])]
        ELSE [ret |-> FALSE, stats |-> stats]
    ELSE [ret |-> TRUE, stats |-> stats]

record_success_keeps_failures(stats) ==
    IF stats.state = "half_open" THEN
        LET s1 == [stats EXCEPT !.success_count = @ + 1] IN
        IF s1.success_count >= success_threshold
        THEN CircuitStats_reset([s1 EXCEPT !.state = "closed"])
        ELSE s1
    ELSE stats

record_success(stats) ==
    IF stats.state = "half_open" THEN
        LET s1 == [stats EXCEPT !.success_count = @ + 1] IN
        IF s1.success_count >= success_threshold
        THEN CircuitStats_reset([s1 EXCEPT !.state = "closed"])
        ELSE s1
    ELSE IF stats.state = "closed" THEN [stats EXCEPT !.failure_count = 0]
    ELSE stats

record_failure_keeps_opened_at(stats, t) ==
    LET s1 == [stats EXCEPT !.failure_count = @ + 1, !.last_failure_time = t] IN
    IF s1.state = "half_open" THEN [s1 EXCEPT !.state = "open"]
    ELSE IF s1.state = "closed" /\ s1.failure_count >= failure_threshold
         THEN [s1 EXCEPT !.state = "open", !.opened_at = t]
    ELSE s1

record_failure(stats, t) ==
    LET s1 == [stats EXCEPT !.failure_count = @ + 1, !.last_failure_time = t] IN
    IF s1.state = "half_open" THEN [s1 EXCEPT !.state = "open", !.opened_at = t]
    ELSE IF s1.state = "closed" /\ s1.failure_count >= failure_threshold
         THEN [s1 EXCEPT !.state = "open", !.opened_at = t]
    ELSE s1

\* CircuitBreaker.reset: a fresh CircuitStats for the key
CircuitBreaker_reset(stats) == CircuitStats

NoCall == [op |-> "none"]

\* One breaker call on key k: the stats of k, the histories and brk_last.
BreakerCall(op, k) ==
    LET pre == circuits[k]
        res == is_allowed(pre, now)
        post == CASE op = "is_allowed" -> res.stats
                  [] op = "record_success" -> record_success(pre)
                  [] op = "record_failure" -> record_failure(pre, now)
                  [] op = "reset" -> CircuitBreaker_reset(pre)
    IN  /\ circuits' = [circuits EXCEPT ![k] = post]
        /\ consecFail' = [consecFail EXCEPT ![k] =
                CASE op = "record_failure" -> @ + 1
                  [] op = "record_success" -> 0
                  [] op = "reset" -> 0
                  [] OTHER -> @]
        /\ probePending' = [probePending EXCEPT ![k] =
                CASE op = "is_allowed" -> @ \/ (pre.state = "open" /\ res.ret)
                  [] OTHER -> FALSE]
        /\ halfOpenSucc' = [halfOpenSucc EXCEPT ![k] =
                CASE op = "record_success" /\ pre.state = "half_open" -> @ + 1
                  [] op = "is_allowed" /\ pre.state = "half_open" -> @
                  [] OTHER -> 0]
        /\ brk_last' = [op |-> op, key |-> k, pre |-> pre,
                        ret |-> IF op = "is_allowed" THEN res.ret ELSE TRUE,
                        pending |-> probePending[k]]

BrkInit(keys) ==
    /\ circuits = [k \in keys |-> CircuitStats]
    /\ consecFail = [k \in keys |-> 0]
    /\ probePending = [k \in keys |-> FALSE]
    /\ halfOpenSucc = [k \in keys |-> 0]
    /\ brk_last = NoCall

BrkConfigInit ==
    /\ failure_threshold \in 1..MaxFailureThreshold
    /\ recovery_timeout \in 1..MaxRecoveryTimeout
    /\ success_threshold \in 1..MaxSuccessThreshold

BrkConfigUnchanged ==
    UNCHANGED <<failure_threshold, recovery_timeout, success_threshold>>

BrkUnused ==
    /\ failure_threshold = 1 /\ recovery_timeout = 1 /\ success_threshold = 1
    /\ BrkInit({})


(***************************************************************************)
(* Sliding-window limiter (services/rate_limiter.py)                       *)
(***************************************************************************)
LimKeys == {"ip1", "ip2"}

EmptyMap == [x \in {} |-> 0]

\* _current_slot: int(time.time() / slot_duration), slot_duration = window_seconds / slot_count
current_slot(t) == (t * slot_count) \div window_seconds

\* _get_window_slots: range(current - slot_count + 1, current + 1)
window_slots(t) == (current_slot(t) - slot_count + 1)..current_slot(t)

\* window.get(slot, 0)
window_get(window, slot) == IF slot \in DOMAIN window THEN window[slot] ELSE 0

RECURSIVE SumGet(_, _)
SumGet(window, slots) ==
    IF slots = {} THEN 0
    ELSE LET s == CHOOSE x \in slots : TRUE
         IN  window_get(window, s) + SumGet(window, slots \ {s})

cleanup_drops_window(w, lc, t) ==
    IF t - lc < cleanup_interval THEN [windows |-> w, last_cleanup |-> lc]
    ELSE
        LET min_valid_slot == current_slot(t)
            pruned == [k \in DOMAIN w |->
                        [sl \in {x \in DOMAIN w[k] : x >= min_valid_slot} |-> w[k][sl]]]
            kept == {k \in DOMAIN w : DOMAIN pruned[k] # {}}
        IN  [windows |-> [k \in kept |-> pruned[k]], last_cleanup |-> t]

\* _cleanup_if_needed: the windows and _last_cleanup it leaves
cleanup_if_needed(w, lc, t) ==
    IF t - lc < cleanup_interval THEN [windows |-> w, last_cleanup |-> lc]
    ELSE
        LET min_valid_slot == current_slot(t) - slot_count
            pruned == [k \in DOMAIN w |->
                        [sl \in {x \in DOMAIN w[k] : x >= min_valid_slot} |-> w[k][sl]]]
            kept == {k \in DOMAIN w : DOMAIN pruned[k] # {}}
        IN  [windows |-> [k \in kept |-> pruned[k]], last_cleanup |-> t]

\* self._windows[key] on the defaultdict: the key is created with an empty window
windows_touch(w, key) ==
    IF key \in DOMAIN w THEN w ELSE [k \in DOMAIN w \cup {key} |-> IF k = key THEN EmptyMap ELSE w[k]]

\* int((current_slot + 1) * slot_duration)
reset_at(t) == ((current_slot(t) + 1) * window_seconds) \div slot_count

Max(a, b) == IF a >= b THEN a ELSE b
Min(a, b) == IF a <= b THEN a ELSE b

\* check(key): the windows and _last_cleanup it leaves, and the RateLimitResult
check_allows_at_limit(w, lc, key, t) ==
    LET c == cleanup_if_needed(w, lc, t)
        w1 == windows_touch(c.windows, key)
        window == w1[key]
        current_count == SumGet(window, window_slots(t))
        cur == current_slot(t)
    IN  IF current_count > max_requests
        THEN [windows |-> w1, last_cleanup |-> c.last_cleanup,
              result |-> [allowed |-> FALSE, limit |-> max_requests, remaining |-> 0,
                          reset_at |-> reset_at(t),
                          retry_after |-> Max(1, reset_at(t) - t)]]
        ELSE [windows |-> [w1 EXCEPT ![key] =
                            [sl \in DOMAIN window \cup {cur} |->
                                window_get(window, sl) + IF sl = cur THEN 1 ELSE 0]],
              last_cleanup |-> c.last_cleanup,
              result |-> [allowed |-> TRUE, limit |-> max_requests,
                          remaining |-> max_requests - current_count - 1,
                          reset_at |-> reset_at(t), retry_after |-> 0]]

check(w, lc, key, t) ==
    LET c == cleanup_if_needed(w, lc, t)
        w1 == windows_touch(c.windows, key)
        window == w1[key]
        current_count == SumGet(window, window_slots(t))
        cur == current_slot(t)
    IN  IF current_count >= max_requests
        THEN [windows |-> w1, last_cleanup |-> c.last_cleanup,
              result |-> [allowed |-> FALSE, limit |-> max_requests, remaining |-> 0,
                          reset_at |-> reset_at(t),
                          retry_after |-> Max(1, reset_at(t) - t)]]
        ELSE [windows |-> [w1 EXCEPT ![key] =
                            [sl \in DOMAIN window \cup {cur} |->
                                window_get(window, sl) + IF sl = cur THEN 1 ELSE 0]],
              last_cleanup |-> c.last_cleanup,
              result |-> [allowed |-> TRUE, limit |-> max_requests,
                          remaining |-> max_requests - current_count - 1,
                          reset_at |-> reset_at(t), retry_after |-> 0]]

\* get_status(key): reads the window (creating the key) and counts nothing
get_status(w, key, t) ==
    LET w1 == windows_touch(w, key)
        current_count == SumGet(w1[key], window_slots(t))
    IN  [windows |-> w1,
         result |-> [allowed |-> current_count < max_requests, limit |-> max_requests,
                     remaining |-> Max(0, max_requests - current_count),
                     reset_at |-> reset_at(t),
                     retry_after |-> IF current_count < max_requests THEN 0
                                     ELSE Max(1, reset_at(t) - t)]]

\* reset(key): del self._windows[key]
limiter_reset(w, key) == [k \in DOMAIN w \ {key} |-> w[k]]

\* one more allowed check of key in slot sl
grant(g, key, sl) ==
    LET g1 == windows_touch(g, key)
    IN  [g1 EXCEPT ![key] = [s \in DOMAIN g1[key] \cup {sl} |->
                                window_get(g1[key], s) + IF s = sl THEN 1 ELSE 0]]

LimInit ==
    /\ windows = EmptyMap
    /\ last_cleanup = 0
    /\ lim_last = NoCall
    /\ granted = EmptyMap

(***************************************************************************)
(* TTL-LRU cache (services/cache_service.py)                               *)
(***************************************************************************)
\* keys and patterns are strings, kept as tuples of characters so that
\* `pattern in key` is computed
CacheKeys == {<<"p", ":", "a">>, <<"g">>}
CachePatterns == {<<"p", ":">>, <<"g">>}
CacheValues == {"v1", "v2"}
\* the ttl argument of set: <<>> is None, <<n>> is n
NoTtl == <<>>
TtlArgs == {NoTtl} \cup {<<n>> : n \in 0..MaxTtl}

\* pattern in k
pattern_in(pattern, k) ==
    \E i \in 1..(Len(k) - Len(pattern) + 1) : SubSeq(k, i, i + Len(pattern) - 1) = pattern

cache_keys(c) == {c[i].key : i \in DOMAIN c}

\* self._cache.get(key)
cache_entry(c, k) ==
    IF k \in cache_keys(c) THEN c[CHOOSE i \in DOMAIN c : c[i].key = k] ELSE None

\* del self._cache[k] for every k of ks, the order of the rest kept
RECURSIVE cache_del(_, _)
cache_del(c, ks) ==
    IF c = <<>> THEN <<>>
    ELSE IF Head(c).key \in ks THEN cache_del(Tail(c), ks)
    ELSE <<Head(c)>> \o cache_del(Tail(c), ks)

cache_get_no_move(c, k, t) ==
    LET entry == cache_entry(c, k) IN
    IF k \notin cache_keys(c) THEN [ret |-> None, cache |-> c, hit |-> FALSE]
    ELSE IF t > entry.expires_at
         THEN [ret |-> None, cache |-> cache_del(c, {k}), hit |-> FALSE]
    ELSE [ret |-> entry.value, cache |-> c, hit |-> TRUE]

\* TTLCache.get: the value returned, the OrderedDict left and the counters
cache_get(c, k, t) ==
    LET entry == cache_entry(c, k) IN
    IF k \notin cache_keys(c) THEN [ret |-> None, cache |-> c, hit |-> FALSE]
    ELSE IF t > entry.expires_at
         THEN [ret |-> None, cache |-> cache_del(c, {k}), hit |-> FALSE]
    ELSE [ret |-> entry.value, cache |-> cache_del(c, {k}) \o <<entry>>, hit |-> TRUE]

\* while len(self._cache) >= self.max_size: self._cache.popitem(last=False)
RECURSIVE evict_lru(_)
evict_lru(c) == IF Len(c) >= max_size /\ c # <<>> THEN evict_lru(Tail(c)) ELSE c

\* ttl = ttl or self.default_ttl
effective_ttl(ttl) == IF ttl = NoTtl \/ ttl[1] = 0 THEN default_ttl ELSE ttl[1]

\* TTLCache.set: the OrderedDict left
cache_set_default_ttl(c, k, v, ttl, t) ==
    evict_lru(cache_del(c, {k})) \o <<[key |-> k, value |-> v, expires_at |-> t + default_ttl]>>

cache_set(c, k, v, ttl, t) ==
    LET expires_at == t + effective_ttl(ttl)
        c1 == cache_del(c, {k})
    IN  evict_lru(c1) \o <<[key |-> k, value |-> v, expires_at |-> expires_at]>>

\* TTLCache.delete / clear / invalidate_pattern / cleanup_expired: the keys removed
invalidated_keys(c, pattern) == {k \in cache_keys(c) : pattern_in(pattern, k)}
expired_keys(c, t) == {c[i].key : i \in {j \in DOMAIN c : t > c[j].expires_at}}

NoSet == [covered |-> FALSE]

\* the keys of r that are in ks, in the order of r
RECURSIVE kept(_, _)
kept(r, ks) ==
    IF r = <<>> THEN <<>>
    ELSE IF Head(r) \in ks THEN <<Head(r)>> \o kept(Tail(r), ks)
    ELSE kept(Tail(r), ks)

\* key k was used: it becomes the most recent one
used(r, k) == kept(r, {r[i] : i \in DOMAIN r} \ {k}) \o <<k>>

CacheInit ==
    /\ cache = <<>>
    /\ hits = 0
    /\ misses = 0
    /\ lastSet = NoSet
    /\ cache_last = NoCall
    /\ recency = <<>>

CacheConfigInit ==
    /\ max_size \in 1..MaxMaxSize
    /\ default_ttl = MaxTtl

CacheUnused == max_size = 1 /\ default_ttl = 1 /\ CacheInit

(***************************************************************************)
(* Chat path: dispatcher (services/dispatcher_service.py), proxy executor  *)
(* (services/proxy_service.py) and orchestrator (controllers/chat.py)      *)
(***************************************************************************)
\* the exchanges of a client that sends one chat completion after another
Requests == {"r1"}
\* payload.model: a model of the catalog and one that no provider lists
ModelNames == {"claude-3-opus", "gpt-x"}
\* resp.status_code of the upstream; an answer that reports the model missing
\* (404, or "model_not_found" in the body) also rewrites the provider row and is
\* not among the answers drawn here
UpstreamStatuses == {200, 500, 503}

RECENT_SYNC_THRESHOLD == 300000
MAX_PENALTY_MS == 14400000
DefaultChatMaxRetries == 3

\* ProviderManagerService.get_all(): the provider rows, in the order of the query
all_providers ==
    << [id |-> "A", status |-> "active", models |-> {"claude-3-opus"}, lastSyncedAt |-> <<>>],
       [id |-> "B", status |-> "active", models |-> {"claude-3-opus"}, lastSyncedAt |-> <<>>] >>

circuit_key(provider_id) ==
    CASE provider_id = "A" -> "provider:A"
      [] provider_id = "B" -> "provider:B"

ProviderKeys == {circuit_key(all_providers[i].id) : i \in DOMAIN all_providers}

\* int(time.time() * 1000)
now_ms(t) == t * 1000

\* ConfigService.get_number(key, default) on a setting that is <<>> or <<n>>
get_number(setting, default_value) ==
    IF setting = <<>> THEN default_value ELSE setting[1]

\* max(1, get_number("chatMaxRetries", 3) or 3)
max_retries_of(setting) ==
    LET val == get_number(setting, DefaultChatMaxRetries)
    IN  Max(1, IF val = 0 THEN DefaultChatMaxRetries ELSE val)

\* the spellings of the requested model in the catalog: every model of
\* all_providers is its own canonical name and only variant
variant_list(model_name) == {model_name}

\* the providers get_provider_for_model goes through, in the order of get_all
candidates_ignores_excluded(model_name, excluded_ids) ==
    SelectSeq(all_providers, LAMBDA p :
        /\ p.status \in {"active", "syncing"}
        /\ variant_list(model_name) \cap p.models # {})

candidates(model_name, excluded_ids) ==
    SelectSeq(all_providers, LAMBDA p :
        /\ p.status \in {"active", "syncing"}
        /\ variant_list(model_name) \cap p.models # {}
        /\ p.id \notin excluded_ids)

cooldown_key(provider_id, model) == <<provider_id, model>>

cooldowns_del(cd, key) == [k \in DOMAIN cd \ {key} |-> cd[k]]

\* _set_cooldown: the entry stored under key at time t
cooldowns_set(cd, key, backoff_ms, force, t) ==
    [k \in DOMAIN cd \cup {key} |->
        IF k = key
        THEN [until |-> now_ms(t) + backoff_ms, backoffMs |-> backoff_ms, force |-> force]
        ELSE cd[k]]

\* the methods class LogService defines; calling any other name on it raises
\* AttributeError
LogServiceMethods ==
    {"initialize", "subscribe", "unsubscribe", "broadcast", "get_realtime_stats",
     "track_usage", "track_upstream_error", "record_latency", "get_latency_percentiles",
     "log_request", "get_metrics", "get_recent_requests", "get_recent_sync_logs"}

\* _set_cooldown: the entry is stored at line 53 and line 59 then calls
\* LogService.track_cooldown
set_cooldown(cd, key, backoff_ms, force, t) ==
    [cooldowns |-> cooldowns_set(cd, key, backoff_ms, force, t),
     raised |-> "track_cooldown" \notin LogServiceMethods]

\* min(entry["backoffMs"] * 2, MAX_PENALTY_MS)
next_backoff(entry, max_penalty_ms) ==
    IF entry.backoffMs * 2 <= max_penalty_ms THEN entry.backoffMs * 2 ELSE max_penalty_ms

\* last_synced and now - last_synced < RECENT_SYNC_THRESHOLD
recently_synced(p, t) ==
    /\ p.lastSyncedAt # <<>>
    /\ p.lastSyncedAt[1] # 0
    /\ now_ms(t) - p.lastSyncedAt[1] < RECENT_SYNC_THRESHOLD

cooldown_available_trusts_sync(cd, p, model_name, max_penalty_ms, t, probe_ok) ==
    LET key == cooldown_key(p.id, model_name)
    IN  IF key \notin DOMAIN cd THEN [ret |-> TRUE, cooldowns |-> cd, probes |-> 0, raised |-> FALSE]
        ELSE IF recently_synced(p, t)
             THEN [ret |-> TRUE, cooldowns |-> cooldowns_del(cd, key), probes |-> 0, raised |-> FALSE]
        ELSE IF cd[key].until > now_ms(t) THEN [ret |-> FALSE, cooldowns |-> cd, probes |-> 0, raised |-> FALSE]
        ELSE IF probe_ok
             THEN [ret |-> TRUE, cooldowns |-> cooldowns_del(cd, key), probes |-> 1, raised |-> FALSE]
        ELSE LET sc == set_cooldown(cd, key, next_backoff(cd[key], max_penalty_ms), FALSE, t)
             IN  [ret |-> FALSE, cooldowns |-> sc.cooldowns, probes |-> 1,
                  raised |-> sc.raised]

\* _is_available after the breaker allowed the provider, run without another
\* task in between: the flag returned, the cooldown table left behind, the number
\* of _probe_model calls and whether the call raised instead of returning;
\* max_penalty_ms is the setting read at line 137 and probe_ok the answer of
\* _probe_model
cooldown_available(cd, p, model_name, max_penalty_ms, t, probe_ok) ==
    LET key == cooldown_key(p.id, model_name)
    IN  IF key \notin DOMAIN cd THEN [ret |-> TRUE, cooldowns |-> cd, probes |-> 0, raised |-> FALSE]
        ELSE IF ~cd[key].force /\ recently_synced(p, t)
             THEN [ret |-> TRUE, cooldowns |-> cooldowns_del(cd, key), probes |-> 0, raised |-> FALSE]
        ELSE IF cd[key].until > now_ms(t) THEN [ret |-> FALSE, cooldowns |-> cd, probes |-> 0, raised |-> FALSE]
        ELSE IF probe_ok
             THEN [ret |-> TRUE, cooldowns |-> cooldowns_del(cd, key), probes |-> 1, raised |-> FALSE]
        ELSE LET sc == set_cooldown(cd, key, next_backoff(cd[key], max_penalty_ms), FALSE, t)
             IN  [ret |-> FALSE, cooldowns |-> sc.cooldowns, probes |-> 1,
                  raised |-> sc.raised]

NoResult == [status |-> 0, origin |-> "none", code |-> "none"]

\* the locals of a chat_completions call that has not started
IdleReq ==
    [pc |-> "idle", model |-> None, stream |-> FALSE, max_retries |-> 0, attempt |-> 0,
     tried |-> {}, last_error_response |-> <<>>, last_error |-> FALSE,
     todo |-> <<>>, scored |-> {}, provider |-> None, result |-> NoResult,
     denied |-> {},       \* history: providers whose is_allowed returned false in the running selection
     log |-> <<>>,        \* history: the forward attempts of the request: the provider, whether forward_request returned a response or raised, and the upstream status (0 if none)
     scorer |-> "none",   \* history: RoutingScoreService.update made for the running attempt
     breaker |-> "none",  \* history: breaker outcome recorded for the running attempt
     upstream |-> "none", \* history: the upstream response of the running attempt: none, open, closed
     ending |-> "none"]   \* history: how stream_generator left its try block

final_response_prefers_exception(last_error_response, last_error) ==
    IF last_error_response # <<>> /\ ~last_error
    THEN [status |-> last_error_response[1], origin |-> "upstream", code |-> "passthrough"]
    ELSE [status |-> 502, origin |-> "gateway", code |-> "upstream_error"]

\* the code after the retry loop
final_response(last_error_response, last_error) ==
    IF last_error_response # <<>>
    THEN [status |-> last_error_response[1], origin |-> "upstream", code |-> "passthrough"]
    ELSE [status |-> 502, origin |-> "gateway", code |-> "upstream_error"]

after_loop(q) ==
    [q EXCEPT !.pc = "done",
              !.result = final_response(q.last_error_response, q.last_error)]

\* `continue`: the next iteration of `for attempt in range(1, max_retries + 1)`
next_attempt(q) ==
    IF q.attempt < q.max_retries
    THEN [q EXCEPT !.attempt = @ + 1, !.pc = "dispatch"]
    ELSE after_loop(q)

\* the dispatcher returned None
no_selection(q) ==
    IF q.attempt = 1
    THEN [q EXCEPT !.pc = "done",
                   !.result = [status |-> 404, origin |-> "gateway", code |-> "model_not_found"]]
    ELSE after_loop(q)

\* the dispatcher returned provider_id: it joins the tried set and the forward starts
selected(q, provider_id) ==
    [q EXCEPT !.tried = @ \cup {provider_id}, !.provider = provider_id, !.pc = "forward",
              !.scorer = "none", !.breaker = "none", !.upstream = "none"]

ChatInit ==
    /\ cooldowns = <<>>
    /\ reqs = [r \in Requests |-> IdleReq]

ChatUnused ==
    /\ chatMaxRetries = <<>>
    /\ cooldowns = <<>>
    /\ reqs = <<>>

(***************************************************************************)
(* Router scorer (services/routing_score_service.py)                       *)
(* alpha, beta and latency_ewma are kept as exact fractions [n, d]; the    *)
(* clock of the scorer moves in whole half-lives, so that the decay factor *)
(* 2 ** (-age_ms / DECAY_HALF_LIFE_MS) is a power of 1/2.                  *)
(***************************************************************************)
DECAY_HALF_LIFE_MS == 43200000
InitialLatencyEwma == 800

ScorerProviders == {"A"}
ScorerModels == {"claude-3-opus"}
\* latency_ms passed to update: None, or a duration in ms
LatencyArgs == {<<>>, <<0>>, <<800>>}

RECURSIVE Pow2(_)
Pow2(k) == IF k = 0 THEN 1 ELSE 2 * Pow2(k - 1)

\* the fraction n/d in lowest terms (d is a power of 2 or of 5)
RECURSIVE Lowest(_, _)
Lowest(x, p) ==
    IF x.d > 1 /\ x.n % p = 0 /\ x.d % p = 0
    THEN Lowest([n |-> x.n \div p, d |-> x.d \div p], p)
    ELSE x

Whole(i) == [n |-> i, d |-> 1]

PRIOR_ALPHA == Whole(1)
PRIOR_BETA == Whole(1)

scorer_key(provider_id, model) == <<provider_id, model>>

\* prior + (x - prior) * decay, with decay = 1 / 2^halvings
shrink_to_zero(x, prior, halvings) ==
    Lowest([n |-> x.n, d |-> x.d * Pow2(halvings)], 2)

shrink(x, prior, halvings) ==
    Lowest([n |-> prior.n * x.d * Pow2(halvings) + (x.n - prior.n * x.d),
            d |-> x.d * Pow2(halvings)], 2)

\* ProviderStats(alpha=PRIOR_ALPHA, beta=PRIOR_BETA, last_updated=now)
ProviderStats(t_ms) ==
    [alpha |-> PRIOR_ALPHA, beta |-> PRIOR_BETA, latency_ewma |-> Whole(InitialLatencyEwma),
     last_updated |-> t_ms, samples |-> 0, total_success |-> 0, total_failure |-> 0]

apply_decay(stat, t_ms) ==
    IF stat.last_updated = 0 THEN stat
    ELSE IF t_ms - stat.last_updated <= 0 THEN stat
    ELSE LET halvings == (t_ms - stat.last_updated) \div DECAY_HALF_LIFE_MS
         IN  [stat EXCEPT !.alpha = shrink(@, PRIOR_ALPHA, halvings),
                          !.beta = shrink(@, PRIOR_BETA, halvings)]

\* (1 - ALPHA_EWMA) * latency_ewma + ALPHA_EWMA * latency_ms, with ALPHA_EWMA = 1/5
ewma(x, latency_ms) ==
    Lowest([n |-> 4 * x.n + latency_ms * x.d, d |-> 5 * x.d], 5)

\* RoutingScoreService.update at time t_ms: the _stats left behind
scorer_update(st, provider_id, model, success, latency, t_ms) ==
    LET key == scorer_key(provider_id, model)
        stat == IF key \in DOMAIN st THEN st[key] ELSE ProviderStats(t_ms)
        s1 == apply_decay(stat, t_ms)
        s2 == IF success
              THEN [s1 EXCEPT !.alpha = [n |-> @.n + @.d, d |-> @.d], !.total_success = @ + 1]
              ELSE [s1 EXCEPT !.beta = [n |-> @.n + @.d, d |-> @.d], !.total_failure = @ + 1]
        s3 == IF latency # <<>>
              THEN [s2 EXCEPT !.latency_ewma = ewma(@, latency[1])]
              ELSE s2
        s4 == [s3 EXCEPT !.samples = @ + 1, !.last_updated = t_ms]
    IN  [k \in DOMAIN st \cup {key} |-> IF k = key THEN s4 ELSE st[k]]

\* RoutingScoreService.score_for at time t_ms: the _stats left behind (the decay
\* is applied to the stored object; the score itself is a random sample)
score_for(st, provider_id, model, t_ms) ==
    LET key == scorer_key(provider_id, model)
    IN  IF key \notin DOMAIN st THEN st
        ELSE [st EXCEPT ![key] = apply_decay(@, t_ms)]

ScorerInit == scorer_stats = <<>>

(***************************************************************************)
(* Provider catalog (services/provider_manager.py)                         *)
(***************************************************************************)
CatalogProviders == {"A"}
CatalogModels == {"claude-3-opus", "gpt-4o"}
ProviderStatuses == {"pending", "syncing", "active", "error"}

\* the baseUrl column; apiKey and modelBlacklist are written and read with it
UpstreamA == "https://a.example/v1"
UpstreamB == "https://b.example/v1"
BaseUrls == {UpstreamA, UpstreamB}

\* a row of the providers table; lastSyncedAt and lastUsedAt are <<>> (NULL) or <<ms>>
ProviderRow(baseUrl, status, models, lastSyncedAt, lastUsedAt) ==
    [baseUrl |-> baseUrl, status |-> status, models |-> models,
     lastSyncedAt |-> lastSyncedAt, lastUsedAt |-> lastUsedAt]

\* asyncio.create_task(cls.background_sync_task(provider)): the coroutine has not
\* run yet; it keeps the provider dict it was given
NewTask(provider_id, baseUrl) ==
    [id |-> provider_id, baseUrl |-> baseUrl, pc |-> "created", todo |-> {}, valid_models |-> {}]

\* trigger_resync: one more task if the row exists (it raises otherwise)
trigger_resync(d, tk, provider_id) ==
    IF provider_id \in DOMAIN d
    THEN Append(tk, NewTask(provider_id, d[provider_id].baseUrl))
    ELSE tk

remove_model_clears_list(d, provider_id, model, t_ms) ==
    [d EXCEPT ![provider_id] =
        [@ EXCEPT !.models = {}, !.status = "syncing", !.lastUsedAt = <<t_ms>>]]

\* the UPDATE of handle_model_not_found
remove_model(d, provider_id, model, t_ms) ==
    [d EXCEPT ![provider_id] =
        [@ EXCEPT !.models = @ \ {model}, !.status = "syncing", !.lastUsedAt = <<t_ms>>]]

\* handle_model_not_found when nothing else runs between its awaits: the table,
\* the tasks and the returned flag
handle_model_not_found(d, tk, provider_id, model, t_ms) ==
    IF provider_id \notin DOMAIN d THEN [db |-> d, tasks |-> tk, ret |-> FALSE]
    ELSE IF model \notin d[provider_id].models THEN [db |-> d, tasks |-> tk, ret |-> FALSE]
    ELSE LET d1 == remove_model(d, provider_id, model, t_ms)
         IN  [db |-> d1, tasks |-> trigger_resync(d1, tk, provider_id), ret |-> TRUE]

CatInit(rows) ==
    /\ db = rows
    /\ tasks = <<>>
    /\ syncing = {}
    /\ cat_last = NoCall

CatUnused == CatInit(<<>>)

(***************************************************************************)
(* Proxy executor (services/proxy_service.py)                              *)
(***************************************************************************)
\* resp.text of an upstream answer
Bodies == {"{}", "{\"error\": \"model_not_found\"}"}

\* "model_not_found" in error_text
mentions_model_not_found(error_text) == error_text = "{\"error\": \"model_not_found\"}"

ForwardStatuses == {200, 404, 500}

\* payload["model"] of the forwarded requests
ForwardModels == {"claude-3-opus"}

\* what client.send does: an answer, a timeout or refused connection, or another error
ForwardOutcomes ==
    {[kind |-> "response", status |-> s, body |-> b] : s \in ForwardStatuses, b \in Bodies}
        \cup {[kind |-> "timeout", status |-> 0, body |-> "{}"],
              [kind |-> "error", status |-> 0, body |-> "{}"]}

\* resp.is_success
is_success(status) == status \in 200..299

is_out_of_sync_only_404(status, error_text) == status = 404

is_out_of_sync(status, error_text) ==
    status = 404 \/ mentions_model_not_found(error_text)

NoForward == [pc |-> "none"]

FwdInit ==
    /\ upstream_errors = 0
    /\ fwd = NoForward

FwdUnused == FwdInit



(***************************************************************************)
(* Background sync (services/provider_manager.py)                          *)
(***************************************************************************)
\* the ids /models can return for a provider
UpstreamModels == CatalogModels \cup {"text-embedding-3-small"}

\* the answers of _fetch_models_from_upstream: a list of ids, or an exception
FetchResults ==
    {[ok |-> TRUE, raw_models |-> ms] :
        ms \in {{}, {"gpt-4o"}, CatalogModels, {"gpt-4o", "text-embedding-3-small"}}}
        \cup {[ok |-> FALSE, raw_models |-> {}]}

\* _is_non_chat_model: "embedding" or "embed" in the lowered id
is_non_chat_model(model) == model = "text-embedding-3-small"

in_progress_never(ids, provider_id) == FALSE

\* provider["id"] in cls._syncing
in_progress(ids, provider_id) == provider_id \in ids

\* the positions of a task that is past the guard and has not left the finally block
PastGuard == {"entered", "fetching", "clearing", "verifying", "failed"}

\* _update_provider_status(provider_id, status): an UPDATE that matches no row changes nothing
set_status(d, provider_id, status) ==
    IF provider_id \in DOMAIN d
    THEN [d EXCEPT ![provider_id] = [@ EXCEPT !.status = status]]
    ELSE d

\* _update_provider_status(provider_id, status, models)
set_status_models(d, provider_id, status, models, t_ms) ==
    IF provider_id \in DOMAIN d
    THEN [d EXCEPT ![provider_id] =
            ProviderRow(@.baseUrl, status, models, <<t_ms>>, <<t_ms>>)]
    ELSE d

\* the row add_provider inserts
inserted_row(base_url) == ProviderRow(base_url, "pending", {}, <<>>, <<>>)

\* the row update_provider leaves
updated_row(base_url, t_ms) == ProviderRow(base_url, "pending", {}, <<>>, <<t_ms>>)

\* DispatcherService.clear_cooldown
clear_cooldown(cd, provider_id, model_name) ==
    IF cooldown_key(provider_id, model_name) \in DOMAIN cd
    THEN cooldowns_del(cd, cooldown_key(provider_id, model_name))
    ELSE cd

\* one create_task per provider of get_all()
RECURSIVE create_tasks(_, _, _)
create_tasks(tk, d, ids) ==
    IF ids = {} THEN tk
    ELSE LET p == CHOOSE x \in ids : TRUE
         IN  create_tasks(Append(tk, NewTask(p, d[p].baseUrl)), d, ids \ {p})

\* await LogService.log_sync(...): looking the name up on the class raises
\* AttributeError when the class does not define it
log_sync_raises == "log_sync" \notin LogServiceMethods

(***************************************************************************)
(* Model names (utils/model_normalizer.py). A string is the sequence of    *)
(* its characters.                                                         *)
(***************************************************************************)
\* the characters of the identifiers, in code-point order
CharOrder == <<" ", "-", ".", "/", "0", "1", "2", "3", "4", "5", "6", "7", "8", "9", ":", "G", "P", "T", "_", "a", "b", "c", "d", "e", "f", "g", "h", "i", "j", "k", "l", "m", "n", "o", "p", "q", "r", "s", "t", "u", "v", "w", "x", "y", "z">>

CharIndex == [c \in {CharOrder[i] : i \in DOMAIN CharOrder} |->
                 CHOOSE i \in DOMAIN CharOrder : CharOrder[i] = c]

ord(c) == CharIndex[c]

DigitChars == {"0", "1", "2", "3", "4", "5", "6", "7", "8", "9"}

\* the characters SEPARATOR_REGEX [-_\s:]+ matches
SeparatorChars == {"-", "_", " ", ":"}

\* str.lower on one character
lower_char(c) ==
    CASE c = "G" -> "g"
      [] c = "P" -> "p"
      [] c = "T" -> "t"
      [] OTHER -> c

lower(s) == [i \in DOMAIN s |-> lower_char(s[i])]

\* str.strip
RECURSIVE strip(_)
strip(s) ==
    IF s = <<>> THEN s
    ELSE IF Head(s) = " " THEN strip(Tail(s))
    ELSE IF s[Len(s)] = " " THEN strip(SubSeq(s, 1, Len(s) - 1))
    ELSE s

starts_with(s, prefix) ==
    Len(s) >= Len(prefix) /\ SubSeq(s, 1, Len(prefix)) = prefix

\* PREFIX_REGEX.sub("", s): ^(models|model|m)/ matched without regard to case
strip_prefix(s) ==
    LET l == lower(s)
        cut(prefix) == SubSeq(s, Len(prefix) + 1, Len(s))
    IN  IF starts_with(l, <<"m", "o", "d", "e", "l", "s", "/">>) THEN cut(<<"m", "o", "d", "e", "l", "s", "/">>)
        ELSE IF starts_with(l, <<"m", "o", "d", "e", "l", "/">>) THEN cut(<<"m", "o", "d", "e", "l", "/">>)
        ELSE IF starts_with(l, <<"m", "/">>) THEN cut(<<"m", "/">>)
        ELSE s

\* s.split(ch): the pieces between the occurrences of ch, empty ones included
RECURSIVE split_at(_, _, _)
split_at(s, ch, piece) ==
    IF s = <<>> THEN <<piece>>
    ELSE IF Head(s) = ch THEN <<piece>> \o split_at(Tail(s), ch, <<>>)
    ELSE split_at(Tail(s), ch, Append(piece, Head(s)))

split(s, ch) == split_at(s, ch, <<>>)

\* [t for t in SEPARATOR_REGEX.split(s) if t]
RECURSIVE tokens_at(_, _)
tokens_at(s, piece) ==
    IF s = <<>> THEN (IF piece = <<>> THEN <<>> ELSE <<piece>>)
    ELSE IF Head(s) \in SeparatorChars
         THEN (IF piece = <<>> THEN <<>> ELSE <<piece>>) \o tokens_at(Tail(s), <<>>)
    ELSE tokens_at(Tail(s), Append(piece, Head(s)))

tokens_of(s) == tokens_at(s, <<>>)

\* "-".join(tokens)
RECURSIVE join(_)
join(tokens) ==
    IF tokens = <<>> THEN <<>>
    ELSE IF Len(tokens) = 1 THEN tokens[1]
    ELSE tokens[1] \o <<"-">> \o join(Tail(tokens))

all_digits(s) == s # <<>> /\ \A i \in DOMAIN s : s[i] \in DigitChars

\* int(n) of a string of digits
RECURSIVE to_int(_)
to_int(s) ==
    IF s = <<>> THEN 0
    ELSE 10 * to_int(SubSeq(s, 1, Len(s) - 1)) + (ord(s[Len(s)]) - ord("0"))

\* re.match(r"^\d{4,}$", token)
is_long_numeric(token) == all_digits(token) /\ Len(token) >= 4

\* parse_version: the numbers of ^v?(\d+(?:\.\d+)+|\d+)$, or <<>> for None
parse_version(token) ==
    LET body == IF token # <<>> /\ Head(token) = "v" THEN Tail(token) ELSE token
        parts == split(body, ".")
    IN  IF \A i \in DOMAIN parts : all_digits(parts[i])
        THEN [i \in DOMAIN parts |-> to_int(parts[i])]
        ELSE <<>>

VARIANT_TOKENS ==
    {
     <<"l", "a", "t", "e", "s", "t">>, <<"d", "e", "f", "a", "u", "l", "t">>,
     <<"s", "t", "a", "b", "l", "e">>, <<"f", "a", "s", "t">>,
     <<"t", "u", "r", "b", "o">>, <<"s", "l", "o", "w">>,
     <<"h", "i", "g", "h">>, <<"l", "o", "w">>,
     <<"m", "e", "d", "i", "u", "m">>, <<"m", "i", "n", "i">>,
     <<"l", "i", "t", "e">>, <<"l", "i", "g", "h", "t">>,
     <<"p", "r", "o">>, <<"u", "l", "t", "r", "a">>,
     <<"t", "h", "i", "n", "k">>, <<"t", "h", "i", "n", "k", "i", "n", "g">>,
     <<"i", "n", "s", "t", "r", "u", "c", "t">>, <<"c", "h", "a", "t">>,
     <<"o", "n", "l", "i", "n", "e">>, <<"b", "e", "t", "a">>,
     <<"p", "r", "e", "v", "i", "e", "w">>, <<"d", "o", "c", "s">>,
     <<"f", "r", "e", "e">>, <<"m", "a", "x">>,
     <<"x", "h", "i", "g", "h">> }

\* a or b on strings and lists
Or(a, b) == IF a # <<>> THEN a ELSE b

\* the canonical, family and version tokens the loop of normalize_model_name collects
RECURSIVE classify(_, _)
classify(tokens, acc) ==
    IF tokens = <<>> THEN acc
    ELSE LET token == Head(tokens)
             version == parse_version(token)
         IN  IF is_long_numeric(token) THEN classify(Tail(tokens), acc)
             ELSE IF version # <<>>
                  THEN classify(Tail(tokens),
                           [acc EXCEPT !.version_tokens = Append(@, version),
                                       !.canonical_tokens = Append(@, token)])
             ELSE IF token \in VARIANT_TOKENS THEN classify(Tail(tokens), acc)
             ELSE classify(Tail(tokens),
                           [acc EXCEPT !.canonical_tokens = Append(@, token),
                                       !.family_tokens = Append(@, token)])

normalize_model_name(raw) ==
    LET cleaned == lower(strip_prefix(strip(raw)))
        segments == split(cleaned, "/")
        without_vendor ==
            IF Len(segments) > 1 THEN Or(segments[Len(segments)], cleaned) ELSE cleaned
        c == classify(tokens_of(without_vendor),
                      [version_tokens |-> <<>>, canonical_tokens |-> <<>>, family_tokens |-> <<>>])
    IN  [raw |-> raw,
         cleaned |-> cleaned,
         canonical |-> Or(join(c.canonical_tokens), without_vendor),
         family_key |-> Or(join(c.family_tokens), without_vendor),
         version_parts |-> IF c.version_tokens # <<>> THEN c.version_tokens[1] ELSE <<>>]

\* a < b on lists of numbers, as Python compares lists
RECURSIVE list_less(_, _)
list_less(a, b) ==
    IF b = <<>> THEN FALSE
    ELSE IF a = <<>> THEN TRUE
    ELSE IF Head(a) # Head(b) THEN Head(a) < Head(b)
    ELSE list_less(Tail(a), Tail(b))

\* a < b on strings, as Python compares them
RECURSIVE str_less(_, _)
str_less(a, b) ==
    IF b = <<>> THEN FALSE
    ELSE IF a = <<>> THEN TRUE
    ELSE IF Head(a) # Head(b) THEN ord(Head(a)) < ord(Head(b))
    ELSE str_less(Tail(a), Tail(b))

\* sorted(strings)
RECURSIVE sorted(_)
sorted(strings) ==
    IF strings = {} THEN <<>>
    ELSE LET least == CHOOSE s \in strings : \A t \in strings \ {s} : str_less(s, t)
         IN  <<least>> \o sorted(strings \ {least})

\* the raw identifiers of the catalogs, provider after provider
RECURSIVE flatten(_)
flatten(models_by_provider) ==
    IF models_by_provider = <<>> THEN <<>>
    ELSE Head(models_by_provider) \o flatten(Tail(models_by_provider))

\* info.family_key or info.canonical or info.cleaned
family_key_of(info) == Or(info.family_key, Or(info.canonical, info.cleaned))

\* the keys of family_map in insertion order
RECURSIVE family_keys(_, _)
family_keys(infos, seen) ==
    IF infos = <<>> THEN seen
    ELSE LET key == family_key_of(Head(infos))
         IN  family_keys(Tail(infos),
                         IF \E i \in DOMAIN seen : seen[i] = key THEN seen ELSE Append(seen, key))

\* family_map[key] after the first loop
family_entry(infos, key) ==
    LET own == SelectSeq(infos, LAMBDA info : family_key_of(info) = key)
    IN  [variants |-> {own[i].raw : i \in DOMAIN own},
         candidates |-> [i \in DOMAIN own |->
              [canonical |-> Or(own[i].canonical, own[i].cleaned),
               version |-> own[i].version_parts]]]

\* candidates[0], or the first of the candidates with the greatest version
\* (a stable descending sort)
preferred(entry) ==
    LET with_version == SelectSeq(entry.candidates, LAMBDA c : c.version # <<>>)
    IN  IF with_version = <<>> THEN entry.candidates[1]
        ELSE with_version[CHOOSE i \in DOMAIN with_version :
                /\ \A j \in DOMAIN with_version :
                      ~list_less(with_version[i].version, with_version[j].version)
                /\ \A j \in 1..(i - 1) :
                      list_less(with_version[j].version, with_version[i].version)]

\* compare_version_parts(a, b): the difference of the first elements that
\* differ, the shorter list padded with 0
RECURSIVE compare_version_parts(_, _)
compare_version_parts(a, b) ==
    IF a = <<>> /\ b = <<>> THEN 0
    ELSE LET av == IF a # <<>> THEN Head(a) ELSE 0
             bv == IF b # <<>> THEN Head(b) ELSE 0
         IN  IF av # bv THEN av - bv
             ELSE compare_version_parts(IF a # <<>> THEN Tail(a) ELSE <<>>,
                                        IF b # <<>> THEN Tail(b) ELSE <<>>)

\* d[k] = v for every k of keys
put_all(d, keys, v) ==
    [k \in DOMAIN d \cup keys |-> IF k \in keys THEN v ELSE d[k]]

\* the second loop of build_model_alias_maps over the families from position i on
RECURSIVE fill_maps(_, _, _, _)
fill_maps(infos, keys, i, maps) ==
    IF i > Len(keys) THEN maps
    ELSE LET entry == family_entry(infos, keys[i])
             canonical == preferred(entry).canonical
         IN  fill_maps(infos, keys, i + 1,
                [canonical_to_variants |->
                    put_all(maps.canonical_to_variants, {canonical}, entry.variants),
                 variant_to_canonical |->
                    put_all(maps.variant_to_canonical,
                            entry.variants
                              \cup {normalize_model_name(v).canonical : v \in entry.variants}
                              \cup {canonical, normalize_model_name(canonical).canonical},
                            canonical)])

build_model_alias_maps(models_by_provider) ==
    LET raws == flatten(models_by_provider)
        infos == [i \in DOMAIN raws |-> normalize_model_name(raws[i])]
    IN  fill_maps(infos, family_keys(infos, <<>>), 1,
                  [canonical_to_variants |-> <<>>, variant_to_canonical |-> <<>>])

\* get_models on a cache miss: the ids of the listing
get_models(models_by_provider) ==
    sorted(DOMAIN build_model_alias_maps(models_by_provider).canonical_to_variants)

\* identifiers upstreams list
gpt_4o_2024_05_13 == <<"g", "p", "t", "-", "4", "o", "-", "2", "0", "2", "4", "-", "0", "5", "-", "1", "3">>
gpt_4o_mini == <<"g", "p", "t", "-", "4", "o", "-", "m", "i", "n", "i">>
models_gpt_4o_latest == <<"m", "o", "d", "e", "l", "s", "/", "g", "p", "t", "-", "4", "o", "-", "l", "a", "t", "e", "s", "t">>
vendor_gpt_4o == <<"v", "e", "n", "d", "o", "r", "/", "g", "p", "t", "-", "4", "o">>
gpt_4o == <<"g", "p", "t", "-", "4", "o">>
gpt_4o_05_13 == <<"g", "p", "t", "-", "4", "o", "-", "0", "5", "-", "1", "3">>
v2 == <<"v", "2">>
v2_beta == <<"v", "2", "-", "b", "e", "t", "a">>
GPT_4_turbo == <<"G", "P", "T", "-", "4", "_", "t", "u", "r", "b", "o">>

gpt_4 == <<"g", "p", "t", "-", "4">>
gpt_4_0 == <<"g", "p", "t", "-", "4", ".", "0">>
gpt_3_5 == <<"g", "p", "t", "-", "3", ".", "5">>
gpt_turbo == <<"g", "p", "t", "-", "t", "u", "r", "b", "o">>

\* identifiers of one family with versions of different lengths, and without
VersionedIdentifiers == {gpt_4, gpt_4_0, gpt_3_5, gpt_turbo}

RawIdentifiers ==
    {gpt_4o_2024_05_13, gpt_4o_mini, models_gpt_4o_latest, vendor_gpt_4o,
     v2, v2_beta, GPT_4_turbo}

AliasInit ==
    /\ catalogs = <<<<>>, <<>>>>
    /\ alias_last = NoCall

AliasUnused ==
    /\ catalogs = <<>>
    /\ alias_last = NoCall

(***************************************************************************)
(* Dispatcher (services/dispatcher_service.py)                             *)
(***************************************************************************)
INITIAL_PENALTY_MS == 1800000
RESYNC_THRESHOLD == 3
RESYNC_COOLDOWN_MS == 600000

DispatchProviders == {"A", "B"}

\* ProviderManagerService.get_all(): the rows of the table in the order of the
\* query, the models of a row being the stored list
get_all(d) ==
    LET ids == SelectSeq(<<"A", "B">>, LAMBDA id : id \in DOMAIN d)
    IN  [i \in DOMAIN ids |->
            [id |-> ids[i], status |-> d[ids[i]].status, models |-> d[ids[i]].models,
             lastSyncedAt |-> d[ids[i]].lastSyncedAt]]

\* v in p["models"]
listed(models, v) == \E i \in DOMAIN models : models[i] = v

\* get_provider_for_model, lines 172-175: the spellings of the requested model
resolve_variants(alias_maps, model_name) ==
    LET normalized_input == Or(normalize_model_name(model_name).canonical, model_name)
        canonical ==
            IF normalized_input \in DOMAIN alias_maps.variant_to_canonical
            THEN Or(alias_maps.variant_to_canonical[normalized_input], normalized_input)
            ELSE normalized_input
    IN  IF canonical \in DOMAIN alias_maps.canonical_to_variants
        THEN alias_maps.canonical_to_variants[canonical]
        ELSE {model_name}

candidates_of_any_status(rows, variants, excluded_ids) ==
    SelectSeq(rows, LAMBDA p :
        /\ \E v \in variants : listed(p.models, v)
        /\ p.id \notin excluded_ids)

\* get_provider_for_model, lines 177-182
candidates_of(rows, variants, excluded_ids) ==
    SelectSeq(rows, LAMBDA p :
        /\ p.status \in {"active", "syncing"}
        /\ \E v \in variants : listed(p.models, v)
        /\ p.id \notin excluded_ids)

\* the value of one entry of _penalty_counts
penalty_of(counts, key) ==
    IF key \in DOMAIN counts THEN counts[key] ELSE [count |-> 0, lastResync |-> <<>>]

\* penalize(provider_id, model_name, duration_ms, force), duration being <<>>
\* for None: the cooldown table, the penalty counts and the sync tasks it
\* leaves, and whether it raised; lines 88-105 run only when _set_cooldown
\* returned
penalize(cd, counts, d, tk, settings, provider_id, model_name, duration, force, t) ==
    LET initial == get_number(settings.initial_penalty_ms, INITIAL_PENALTY_MS)
        maximum == get_number(settings.max_penalty_ms, MAX_PENALTY_MS)
        threshold == get_number(settings.resync_threshold, RESYNC_THRESHOLD)
        resync_cooldown == get_number(settings.resync_cooldown_ms, RESYNC_COOLDOWN_MS)
        key == cooldown_key(provider_id, model_name)
        duration_ms == IF duration = <<>> THEN initial ELSE duration[1]
        backoff == IF key \in DOMAIN cd
                   THEN Min(cd[key].backoffMs * 2, maximum)
                   ELSE Max(duration_ms, initial)
        penalty == penalty_of(counts, key)
        should_resync ==
            /\ penalty.count + 1 >= threshold
            /\ \/ penalty.lastResync = <<>>
               \/ penalty.lastResync[1] = 0
               \/ now_ms(t) - penalty.lastResync[1] > resync_cooldown
        resynced == should_resync /\ provider_id \in DOMAIN d
        stored == IF resynced THEN [count |-> 0, lastResync |-> <<now_ms(t)>>]
                  ELSE [penalty EXCEPT !.count = @ + 1]
        sc == set_cooldown(cd, key, backoff, force, t)
    IN  IF sc.raised
        THEN [cooldowns |-> sc.cooldowns, penalty_counts |-> counts, tasks |-> tk,
              raised |-> TRUE]
        ELSE [cooldowns |-> sc.cooldowns,
              penalty_counts |-> [k \in DOMAIN counts \cup {key} |->
                                     IF k = key THEN stored ELSE counts[k]],
              tasks |-> IF should_resync THEN trigger_resync(d, tk, provider_id) ELSE tk,
              raised |-> FALSE]

IdleDispatch == [pc |-> "idle"]

\* scored.sort(key=score, reverse=True) followed by scored[0], taking the last
\* entry appended
picked_last_scored(scored) == scored[Len(scored)]

\* lines 207-208: scored.sort(key=score, reverse=True) keeps the entries of equal
\* score in the order they were appended, so scored[0] is the first entry of
\* the greatest score
picked_of(scored) ==
    LET first_best == CHOOSE i \in DOMAIN scored :
                          /\ \A j \in DOMAIN scored : scored[j].score <= scored[i].score
                          /\ \A j \in 1..(i - 1) : scored[j].score < scored[i].score
    IN  scored[first_best]

\* get_provider_for_model returned None
NoPair == [provider |-> None, resolvedModel |-> <<>>]

DispInit(settings) ==
    /\ dispatcher_settings = settings
    /\ penalty_counts = <<>>
    /\ disp = IdleDispatch
    /\ disp_last = NoCall
    /\ checks = <<>>

NoSettings ==
    [initial_penalty_ms |-> <<>>, max_penalty_ms |-> <<>>,
     resync_threshold |-> <<>>, resync_cooldown_ms |-> <<>>]

DispUnused == DispInit(NoSettings)


\* the locals of an _is_available call that has not started; entry is <<>> for
\* None and <<e>> for the dict read at line 134
IdleCheck ==
    [pc |-> "idle", provider |-> None, model_name |-> <<>>, entry |-> <<>>, ret |-> FALSE]

\* del cls._cooldowns[key] (lines 146 and 158): the position after it, KeyError
\* being raised when the key is not in the table
after_del(cd, key) == IF key \in DOMAIN cd THEN "returned" ELSE "raised"

(***************************************************************************)
(* Log batcher (services/log_service.py)                                   *)
(***************************************************************************)
\* cls._queue.append(entry) on a deque with maxlen: a full deque drops its
\* oldest entry
deque_append(q, entry) ==
    IF Len(q) >= maxlen THEN Tail(q) \o <<entry>> ELSE Append(q, entry)

\* a flush() call that has not run yet
NewFlush(kind) == [kind |-> kind, pc |-> "created", entries |-> <<>>]

take_keeps_queue(q) == [entries |-> q, queue |-> q]

\* entries = list(cls._queue); cls._queue.clear(), under the lock with no await
\* between the two
take(q) == [entries |-> q, queue |-> <<>>]

\* flush lines 75-78 for the call rec: it returns when the queue is empty and
\* otherwise takes the entries and goes on to the database write
flush_start(q, rec) ==
    IF q = <<>> THEN [rec |-> [rec EXCEPT !.pc = "returned"], queue |-> q]
    ELSE [rec |-> [rec EXCEPT !.pc = "writing", !.entries = take(q).entries],
          queue |-> take(q).queue]

\* the elements of a sequence
Range(q) == {q[i] : i \in DOMAIN q}

BatchInit ==
    /\ log_queue = <<>>
    /\ flushes = <<>>
    /\ written = {}
    /\ added = 0
    /\ batcher_running = TRUE
    /\ batch_last = NoCall

BatchUnused == BatchInit

\* asyncio.Queue.put_nowait(payload): QueueFull when the queue holds maxsize items
put_nowait(q, payload) ==
    IF Len(q) >= maxsize THEN [queue |-> q, raised |-> "QueueFull"]
    ELSE [queue |-> Append(q, payload), raised |-> None]

broadcast_unbounded(ls, qs, payload) ==
    [q \in DOMAIN qs |-> IF q \in ls THEN Append(qs[q], payload) ELSE qs[q]]

\* LogService.broadcast: the queues after the loop of lines 158-164 (a full
\* queue is passed over; no queue is disconnected by QueueFull)
broadcast(ls, qs, payload) ==
    [q \in DOMAIN qs |-> IF q \in ls THEN put_nowait(qs[q], payload).queue ELSE qs[q]]

SseInit ==
    /\ listeners = {}
    /\ queues = <<>>
    /\ events = 0
    /\ sse_last = NoCall

SseUnused == SseInit

\* cache_key = "providers:all"
cache_key == "providers:all"

\* a get_all call: who made it, where it stands, the list it read or returned,
\* whether a create or delete completed while it ran, and the pairs that
\* handle_model_not_found had removed when it began
NewGet(caller, pc, rows) ==
    [caller |-> caller, pc |-> pc, rows |-> rows, overlapped |-> FALSE, removed |-> unlisted]

\* get_provider_for_model, lines 177-182 and 191-192, for a requested name
\* that the lists hold in this spelling: the (provider, resolvedModel) pairs
\* the call can return from the list get_all gave it
selectable(rows, model_name) ==
    {<<rows[i].id, model_name>> : i \in {j \in DOMAIN rows :
        /\ rows[j].status \in {"active", "syncing"}
        /\ model_name \in rows[j].models}}

ProvInit ==
    /\ gets = <<>>
    /\ unlisted = {}
    /\ prov_last = NoCall

ProvUnused == ProvInit

LateUnused == BatchUnused /\ SseUnused /\ ProvUnused

ExtUnused == ScorerInit /\ CatUnused /\ FwdUnused /\ AliasUnused /\ DispUnused /\ LateUnused

(***************************************************************************)
(* Specifications                                                          *)
(***************************************************************************)
(* ------------------- the breaker called as a library ------------------- *)
BrkIsAllowed(k) ==
    /\ BreakerCall("is_allowed", k)
    /\ BrkConfigUnchanged /\ UNCHANGED <<now, limVars, cacheVars, chatVars, extVars>>

BrkRecordSuccess(k) ==
    /\ BreakerCall("record_success", k)
    /\ BrkConfigUnchanged /\ UNCHANGED <<now, limVars, cacheVars, chatVars, extVars>>

BrkRecordFailure(k) ==
    /\ circuits[k].failure_count < MaxFailureCount
    /\ BreakerCall("record_failure", k)
    /\ BrkConfigUnchanged /\ UNCHANGED <<now, limVars, cacheVars, chatVars, extVars>>

BrkReset(k) ==
    /\ BreakerCall("reset", k)
    /\ BrkConfigUnchanged /\ UNCHANGED <<now, limVars, cacheVars, chatVars, extVars>>

BrkTick ==
    /\ now < MaxTime
    /\ now' = now + 1
    /\ brk_last' = NoCall
    /\ UNCHANGED <<circuits, consecFail, probePending, halfOpenSucc>>
    /\ BrkConfigUnchanged /\ UNCHANGED <<limVars, cacheVars, chatVars, extVars>>

SpecBreakerInit == now = 0 /\ BrkConfigInit /\ BrkInit({"provider:A"}) /\ LimInit /\ CacheUnused /\ ChatUnused /\ ExtUnused

SpecBreakerNext ==
    \/ \E k \in CircuitKeys : BrkIsAllowed(k)
    \/ \E k \in CircuitKeys : BrkRecordSuccess(k)
    \/ \E k \in CircuitKeys : BrkRecordFailure(k)
    \/ \E k \in CircuitKeys : BrkReset(k)
    \/ BrkTick

SpecBreaker == SpecBreakerInit /\ [][SpecBreakerNext]_vars

(* ----------------------------- the limiter ----------------------------- *)
LimCheck(key) ==
    LET r == check(windows, last_cleanup, key, now)
    IN  /\ windows' = r.windows
        /\ last_cleanup' = r.last_cleanup
        /\ lim_last' = [op |-> "check", key |-> key, result |-> r.result,
                        pre |-> windows, pre_cleanup |-> last_cleanup]
        /\ granted' = IF r.result.allowed THEN grant(granted, key, current_slot(now))
                      ELSE granted
        /\ UNCHANGED <<now, brkVars, cacheVars, chatVars, extVars>>

LimGetStatus(key) ==
    LET r == get_status(windows, key, now)
    IN  /\ windows' = r.windows
        /\ lim_last' = [op |-> "get_status", key |-> key, result |-> r.result,
                        pre |-> windows, pre_cleanup |-> last_cleanup]
        /\ UNCHANGED <<now, last_cleanup, granted, brkVars, cacheVars, chatVars, extVars>>

LimReset(key) ==
    /\ key \in DOMAIN windows
    /\ windows' = limiter_reset(windows, key)
    /\ granted' = limiter_reset(granted, key)
    /\ lim_last' = NoCall
    /\ UNCHANGED <<now, last_cleanup, brkVars, cacheVars, chatVars, extVars>>

LimTick ==
    /\ now < LimMaxTime
    /\ now' = now + 1
    /\ lim_last' = NoCall
    /\ UNCHANGED <<windows, last_cleanup, granted, brkVars, cacheVars, chatVars, extVars>>

SpecLimiterInit == now = 0 /\ BrkUnused /\ LimInit /\ CacheUnused /\ ChatUnused /\ ExtUnused

SpecLimiterNext ==
    \/ \E key \in LimKeys : LimCheck(key)
    \/ \E key \in LimKeys : LimGetStatus(key)
    \/ \E key \in LimKeys : LimReset(key)
    \/ LimTick

SpecLimiter == SpecLimiterInit /\ [][SpecLimiterNext]_vars

(* ------------------------------ the cache ------------------------------ *)
\* the history of a removal: a set whose key is removed is no longer followed
Forget(ks) == lastSet' = IF lastSet.covered /\ lastSet.key \in ks THEN NoSet ELSE lastSet

CacheGet(k) ==
    /\ hits + misses < MaxGets
    /\ LET r == cache_get(cache, k, now)
       IN  /\ cache' = r.cache
           /\ hits' = IF r.hit THEN hits + 1 ELSE hits
           /\ misses' = IF r.hit THEN misses ELSE misses + 1
           /\ cache_last' = [op |-> "get", key |-> k, ret |-> r.ret,
                             had |-> k \in cache_keys(cache)]
           /\ recency' = IF r.hit THEN used(recency, k) ELSE kept(recency, cache_keys(r.cache))
    /\ UNCHANGED <<now, max_size, default_ttl, lastSet, brkVars, limVars, chatVars, extVars>>

CacheSet(k, v, ttl) ==
    /\ cache' = cache_set(cache, k, v, ttl, now)
    /\ lastSet' =
            IF ttl # NoTtl /\ ttl[1] > 0
            THEN [covered |-> TRUE, key |-> k, value |-> v, t0 |-> now, ttl |-> ttl[1]]
            ELSE IF lastSet.covered /\ (lastSet.key = k \/ lastSet.key \notin cache_keys(cache'))
            THEN NoSet
            ELSE lastSet
    /\ cache_last' = [op |-> "set", key |-> k, ret |-> None, had |-> k \in cache_keys(cache),
                      value |-> v, pre_keys |-> cache_keys(cache), pre_recency |-> recency]
    /\ recency' = used(kept(recency, cache_keys(cache')), k)
    /\ UNCHANGED <<now, hits, misses, max_size, default_ttl, brkVars, limVars, chatVars, extVars>>

CacheDelete(k) ==
    /\ cache' = cache_del(cache, {k})
    /\ Forget({k})
    /\ recency' = kept(recency, cache_keys(cache'))
    /\ cache_last' = [op |-> "delete", key |-> k, ret |-> k \in cache_keys(cache),
                      had |-> k \in cache_keys(cache)]
    /\ UNCHANGED <<now, hits, misses, max_size, default_ttl, brkVars, limVars, chatVars, extVars>>

CacheClear ==
    /\ cache' = <<>>
    /\ lastSet' = NoSet
    /\ cache_last' = NoCall
    /\ recency' = <<>>
    /\ UNCHANGED <<now, hits, misses, max_size, default_ttl, brkVars, limVars, chatVars, extVars>>

CacheInvalidatePattern(pattern) ==
    /\ cache' = cache_del(cache, invalidated_keys(cache, pattern))
    /\ Forget(invalidated_keys(cache, pattern))
    /\ recency' = kept(recency, cache_keys(cache'))
    /\ cache_last' = [op |-> "invalidate_pattern", key |-> pattern,
                      ret |-> Cardinality(invalidated_keys(cache, pattern)), had |-> FALSE]
    /\ UNCHANGED <<now, hits, misses, max_size, default_ttl, brkVars, limVars, chatVars, extVars>>

CacheCleanupExpired ==
    /\ cache' = cache_del(cache, expired_keys(cache, now))
    /\ recency' = kept(recency, cache_keys(cache'))
    /\ cache_last' = [op |-> "cleanup_expired", key |-> None,
                      ret |-> Cardinality(expired_keys(cache, now)), had |-> FALSE]
    /\ UNCHANGED <<now, hits, misses, max_size, default_ttl, lastSet, brkVars, limVars, chatVars, extVars>>

CacheTick ==
    /\ now < CacheMaxTime
    /\ now' = now + 1
    /\ cache_last' = NoCall
    /\ UNCHANGED <<cache, hits, misses, max_size, default_ttl, lastSet, recency, brkVars, limVars, chatVars, extVars>>

SpecCacheInit ==
    now = 0 /\ BrkUnused /\ LimInit /\ CacheConfigInit /\ CacheInit /\ ChatUnused /\ ExtUnused

SpecCacheNext ==
    \/ \E k \in CacheKeys : CacheGet(k)
    \/ \E k \in CacheKeys, v \in CacheValues, ttl \in TtlArgs : CacheSet(k, v, ttl)
    \/ \E k \in CacheKeys : CacheDelete(k)
    \/ CacheClear
    \/ \E pattern \in CachePatterns : CacheInvalidatePattern(pattern)
    \/ CacheCleanupExpired
    \/ CacheTick

SpecCache == SpecCacheInit /\ [][SpecCacheNext]_vars

(* ----------------- the cache with room for two entries ----------------- *)
\* set, get, delete and invalidate within the default ttl of the entries
LruKeys == CacheKeys \cup {<<"p", ":", "b">>}

SpecLruInit ==
    /\ now = 0 /\ BrkUnused /\ LimInit /\ CacheInit /\ ChatUnused /\ ExtUnused
    /\ max_size \in 1..LruMaxSize
    /\ default_ttl = MaxTtl

SpecLruNext ==
    \/ \E k \in LruKeys : CacheGet(k)
    \/ \E k \in LruKeys, v \in CacheValues : CacheSet(k, v, NoTtl)
    \/ \E k \in LruKeys : CacheDelete(k)
    \/ \E pattern \in CachePatterns : CacheInvalidatePattern(pattern)

SpecLru == SpecLruInit /\ [][SpecLruNext]_vars

(* ---------------- chat completions through the gateway ----------------- *)
UpstreamOutcomes ==
    {[kind |-> "response", status |-> s] : s \in UpstreamStatuses}
        \cup {[kind |-> "exception", status |-> 0]}

StreamEndings == {"exhausted", "upstream_error", "cancelled"}

\* a step that makes no breaker call
NoBreakerCall ==
    /\ brk_last' = NoCall
    /\ UNCHANGED <<circuits, consecFail, probePending, halfOpenSucc>>

\* chat_completions up to the first dispatcher call: the key check and the retry cap
ChatStart(r) ==
    /\ reqs[r].pc = "idle"
    /\ \E authorized \in BOOLEAN, model \in ModelNames, stream \in BOOLEAN :
        reqs' = [reqs EXCEPT ![r] =
            IF ~authorized
            THEN [IdleReq EXCEPT !.pc = "done",
                    !.result = [status |-> 401, origin |-> "gateway", code |-> "invalid_api_key"]]
            ELSE [IdleReq EXCEPT !.pc = "dispatch", !.model = model, !.stream = stream,
                    !.max_retries = max_retries_of(chatMaxRetries), !.attempt = 1]]
    /\ NoBreakerCall /\ BrkConfigUnchanged
    /\ UNCHANGED <<now, chatMaxRetries, cooldowns, limVars, cacheVars, extVars>>

\* get_provider_for_model up to the loop over the candidates
ChatDispatch(r) ==
    /\ reqs[r].pc = "dispatch"
    /\ LET q == reqs[r]
           cands == candidates(q.model, q.tried)
       IN  reqs' = [reqs EXCEPT ![r] =
                IF cands = <<>> THEN no_selection(q)
                ELSE [q EXCEPT !.pc = "avail", !.scored = {}, !.denied = {},
                               !.todo = [i \in DOMAIN cands |-> cands[i].id]]]
    /\ NoBreakerCall /\ BrkConfigUnchanged
    /\ UNCHANGED <<now, chatMaxRetries, cooldowns, limVars, cacheVars, extVars>>

\* one iteration of the loop: _is_available of the next candidate; after the last
\* one the pick among the scored candidates, and the orchestrator up to the forward
ChatAvail(r) ==
    /\ reqs[r].pc = "avail"
    /\ LET q == reqs[r]
           pid == Head(q.todo)
           p == CHOOSE x \in {all_providers[i] : i \in DOMAIN all_providers} : x.id = pid
           k == circuit_key(pid)
           allowed == is_allowed(circuits[k], now).ret
       IN  \E probe_ok \in BOOLEAN :
            LET cd == IF allowed
                      THEN cooldown_available(cooldowns, p, q.model,
                                              get_number(<<>>, MAX_PENALTY_MS), now, probe_ok)
                      ELSE [ret |-> FALSE, cooldowns |-> cooldowns]
                q1 == [q EXCEPT !.todo = Tail(@),
                                !.scored = IF cd.ret THEN @ \cup {pid} ELSE @,
                                !.denied = IF allowed THEN @ ELSE @ \cup {pid}]
                last == q1.todo = <<>>
            IN  /\ BreakerCall("is_allowed", k)
                /\ cooldowns' = cd.cooldowns
                /\ \E picked \in (IF last /\ q1.scored # {} THEN q1.scored ELSE {None}) :
                    reqs' = [reqs EXCEPT ![r] =
                        IF ~last THEN q1
                        ELSE IF q1.scored = {} THEN no_selection(q1)
                        ELSE selected(q1, picked)]
    /\ BrkConfigUnchanged
    /\ UNCHANGED <<now, chatMaxRetries, limVars, cacheVars, extVars>>

\* forward_request and the orchestrator's reaction to what it returned or raised
ChatForward(r) ==
    /\ reqs[r].pc = "forward"
    /\ \E out \in UpstreamOutcomes :
        LET q == reqs[r]
            k == circuit_key(q.provider)
            q1 == [q EXCEPT !.log = Append(@, [provider |-> q.provider,
                                               kind |-> out.kind, status |-> out.status])]
            q2 == [q EXCEPT !.log = Append(@, [provider |-> q.provider,
                                               kind |-> "exception", status |-> out.status])]
        IN  IF out.kind = "exception" THEN
                /\ BreakerCall("record_failure", k)
                /\ reqs' = [reqs EXCEPT ![r] =
                        next_attempt([q1 EXCEPT !.last_error = TRUE,
                                        !.scorer = "failure", !.breaker = "failure"])]
            ELSE IF out.status \notin 200..299 THEN
                /\ BreakerCall("record_failure", k)
                /\ reqs' = [reqs EXCEPT ![r] =
                        next_attempt([q1 EXCEPT !.last_error_response = <<out.status>>,
                                        !.scorer = "failure", !.breaker = "failure",
                                        !.upstream = "closed"])]
            ELSE IF q.stream THEN
                /\ NoBreakerCall
                /\ reqs' = [reqs EXCEPT ![r] =
                        [q1 EXCEPT !.pc = "stream", !.upstream = "open",
                            !.result = [status |-> out.status, origin |-> "upstream",
                                        code |-> "stream"]]]
            ELSE
                \* `await resp.json()` on the unread httpx response raises, and so does
                \* `await resp.text()` in the handler of that: the generic handler runs
                /\ BreakerCall("record_failure", k)
                /\ reqs' = [reqs EXCEPT ![r] =
                        next_attempt([q2 EXCEPT !.last_error = TRUE, !.upstream = "open",
                                        !.scorer = "failure", !.breaker = "failure"])]
    /\ BrkConfigUnchanged
    /\ UNCHANGED <<now, chatMaxRetries, cooldowns, limVars, cacheVars, extVars>>

\* stream_generator leaves its try block: the upstream body is exhausted, reading
\* it raised, or the generator was cancelled or closed at a suspension point
ChatStreamEnd(r) ==
    /\ reqs[r].pc = "stream"
    /\ \E ending \in StreamEndings :
        LET q == reqs[r]
            k == circuit_key(q.provider)
        IN  CASE ending = "exhausted" ->
                    /\ BreakerCall("record_success", k)
                    /\ reqs' = [reqs EXCEPT ![r] =
                            [q EXCEPT !.pc = "done", !.upstream = "closed", !.ending = ending,
                                !.scorer = "success", !.breaker = "success"]]
              [] ending = "upstream_error" ->
                    /\ NoBreakerCall
                    /\ reqs' = [reqs EXCEPT ![r] =
                            [q EXCEPT !.pc = "done", !.upstream = "closed", !.ending = ending,
                                !.scorer = "failure"]]
              [] ending = "cancelled" ->
                    /\ NoBreakerCall
                    /\ reqs' = [reqs EXCEPT ![r] =
                            [q EXCEPT !.pc = "done", !.upstream = "closed", !.ending = ending]]
    /\ BrkConfigUnchanged
    /\ UNCHANGED <<now, chatMaxRetries, cooldowns, limVars, cacheVars, extVars>>

\* the response has been delivered; the next call of the client starts afresh
ChatDone(r) ==
    /\ reqs[r].pc = "done"
    /\ reqs' = [reqs EXCEPT ![r] = IdleReq]
    /\ NoBreakerCall /\ BrkConfigUnchanged
    /\ UNCHANGED <<now, chatMaxRetries, cooldowns, limVars, cacheVars, extVars>>

ChatTick ==
    /\ now < ChatMaxTime
    /\ now' = now + 1
    /\ NoBreakerCall /\ BrkConfigUnchanged
    /\ UNCHANGED <<chatVars, limVars, cacheVars, extVars>>

SpecChatInit ==
    /\ now = 0
    /\ failure_threshold \in 1..MaxFailureThreshold
    /\ recovery_timeout \in 1..MaxRecoveryTimeout
    /\ success_threshold = 1
    /\ BrkInit(ProviderKeys)
    /\ chatMaxRetries \in {<<>>} \cup {<<n>> : n \in 1..MaxRetriesSetting}
    /\ ChatInit
    /\ LimInit /\ CacheUnused /\ ExtUnused

SpecChatNext ==
    \/ \E r \in Requests : ChatStart(r)
    \/ \E r \in Requests : ChatDispatch(r)
    \/ \E r \in Requests : ChatAvail(r)
    \/ \E r \in Requests : ChatForward(r)
    \/ \E r \in Requests : ChatStreamEnd(r)
    \/ \E r \in Requests : ChatDone(r)
    \/ ChatTick

SpecChat == SpecChatInit /\ [][SpecChatNext]_vars

(* --------------------- the scorer called as a library ------------------ *)
\* everything but the clock and the scorer
scorerFrame == <<brkVars, limVars, cacheVars, chatVars, catVars, fwdVars, aliasVars, dispVars, lateVars>>

ScorerUpdate(provider_id, model) ==
    /\ \A k \in DOMAIN scorer_stats : scorer_stats[k].samples < MaxSamples
    /\ \E success \in BOOLEAN, latency \in LatencyArgs :
        scorer_stats' = scorer_update(scorer_stats, provider_id, model, success, latency, now_ms(now))
    /\ UNCHANGED <<now, scorerFrame>>

ScorerScoreFor(provider_id, model) ==
    /\ \A k \in DOMAIN scorer_stats : scorer_stats[k].alpha.d < MaxScorerDen /\ scorer_stats[k].beta.d < MaxScorerDen
    /\ scorer_stats' = score_for(scorer_stats, provider_id, model, now_ms(now))
    /\ UNCHANGED <<now, scorerFrame>>

\* half a day passes
ScorerTick ==
    /\ now < (1 + ScorerMaxTicks) * (DECAY_HALF_LIFE_MS \div 1000)
    /\ now' = now + DECAY_HALF_LIFE_MS \div 1000
    /\ UNCHANGED <<scorer_stats, scorerFrame>>

SpecScorerInit ==
    /\ now = DECAY_HALF_LIFE_MS \div 1000
    /\ ScorerInit
    /\ BrkUnused /\ LimInit /\ CacheUnused /\ ChatUnused /\ CatUnused /\ FwdUnused /\ AliasUnused
    /\ DispUnused
    /\ LateUnused

SpecScorerNext ==
    \/ \E p \in ScorerProviders, m \in ScorerModels : ScorerUpdate(p, m)
    \/ \E p \in ScorerProviders, m \in ScorerModels : ScorerScoreFor(p, m)
    \/ ScorerTick

SpecScorer == SpecScorerInit /\ [][SpecScorerNext]_vars

(* ------------------ forward_request, one call at a time ---------------- *)
forwardFrame == <<limVars, cacheVars, chatVars, syncing, cat_last, aliasVars, dispVars, lateVars>>

\* forward_request(provider, payload) from its first line to its return or raise
FwdCall(p, model, stream, out) ==
    /\ fwd.pc # "stream"
    /\ scorer_key(p, model) \in DOMAIN scorer_stats =>
            scorer_stats[scorer_key(p, model)].samples < MaxSamples
    /\ LET start_time == now_ms(now)
           duration == now_ms(now) - start_time
           k == circuit_key(p)
           call == [provider |-> p, model |-> model, stream |-> stream, out |-> out,
                    start_time |-> start_time, pre_stats |-> scorer_stats, pre_db |-> db,
                    pre_tasks |-> tasks, pre_errors |-> upstream_errors,
                    pre_circuit |-> circuits[k]]
           failed(latency, pc, ret, closed, handler) ==
                /\ scorer_stats' = scorer_update(scorer_stats, p, model, FALSE, latency, now_ms(now))
                /\ upstream_errors' = upstream_errors + 1
                /\ BreakerCall("record_failure", k)
                /\ fwd' = call @@ [pc |-> pc, ret |-> ret, closed |-> closed, handler |-> handler,
                                   events |-> <<"metrics_update", "error", "metrics_update">>]
       IN  IF out.kind = "response" /\ ~is_success(out.status) THEN
                LET oos == is_out_of_sync(out.status, out.body)
                    h == IF oos THEN handle_model_not_found(db, tasks, p, model, now_ms(now))
                         ELSE [db |-> db, tasks |-> tasks, ret |-> FALSE]
                IN  /\ failed(<<duration>>, "returned",
                              [status |-> out.status, body |-> out.body], TRUE, oos)
                    /\ db' = h.db /\ tasks' = h.tasks
           ELSE IF out.kind = "timeout" THEN
                /\ failed(<<duration>>, "raised", [status |-> 0, body |-> "{}"], FALSE, FALSE)
                /\ UNCHANGED <<db, tasks>>
           ELSE IF out.kind = "error" THEN
                /\ failed(<<0>>, "raised", [status |-> 0, body |-> "{}"], FALSE, FALSE)
                /\ UNCHANGED <<db, tasks>>
           ELSE IF stream THEN
                /\ fwd' = call @@ [pc |-> "stream", ret |-> [status |-> 200, body |-> out.body],
                                   closed |-> FALSE, handler |-> FALSE,
                                   events |-> <<"metrics_update">>]
                /\ NoBreakerCall
                /\ UNCHANGED <<scorer_stats, upstream_errors, db, tasks>>
           ELSE
                \* `await resp.json()` on the unread httpx response raises, and so does
                \* `await resp.text()` in the handler of that: the generic handler runs
                /\ failed(<<0>>, "raised", [status |-> 0, body |-> "{}"], FALSE, FALSE)
                /\ UNCHANGED <<db, tasks>>
    /\ BrkConfigUnchanged
    /\ UNCHANGED <<now, forwardFrame>>

\* forward_request for a non-2xx answer that is out of sync, when the database
\* raises OperationalError inside handle_model_not_found (fetch_one and
\* execute_query re-raise it): lines 89-96 have recorded the failure, the
\* exception leaves the try block through `except Exception`, which records a
\* failure again and re-raises; the response is never closed
FwdCallDbError(p, model, out, step) ==
    /\ fwd.pc # "stream"
    /\ out.kind = "response" /\ ~is_success(out.status)
    /\ is_out_of_sync(out.status, out.body)
    /\ step = "execute_query" => (p \in DOMAIN db /\ model \in db[p].models)
    /\ scorer_key(p, model) \in DOMAIN scorer_stats =>
            scorer_stats[scorer_key(p, model)].samples + 1 < MaxSamples
    /\ LET start_time == now_ms(now)
           duration == now_ms(now) - start_time
           k == circuit_key(p)
           st1 == scorer_update(scorer_stats, p, model, FALSE, <<duration>>, now_ms(now))
           c1 == record_failure(circuits[k], now)
       IN  /\ scorer_stats' = scorer_update(st1, p, model, FALSE, <<0>>, now_ms(now))
           /\ upstream_errors' = upstream_errors + 2
           /\ circuits' = [circuits EXCEPT ![k] = record_failure(c1, now)]
           /\ consecFail' = [consecFail EXCEPT ![k] = @ + 2]
           /\ probePending' = [probePending EXCEPT ![k] = FALSE]
           /\ halfOpenSucc' = [halfOpenSucc EXCEPT ![k] = 0]
           /\ brk_last' = [op |-> "record_failure", key |-> k, pre |-> c1, ret |-> TRUE,
                           pending |-> FALSE]
           /\ fwd' = [provider |-> p, model |-> model, stream |-> FALSE, out |-> out,
                      start_time |-> start_time, pre_stats |-> scorer_stats, pre_db |-> db,
                      pre_tasks |-> tasks, pre_errors |-> upstream_errors,
                      pre_circuit |-> circuits[k],
                      pc |-> "raised", ret |-> [status |-> 0, body |-> "{}"],
                      closed |-> FALSE, handler |-> TRUE, raised_in |-> step,
                      events |-> <<"metrics_update", "error", "metrics_update",
                                   "metrics_update", "error", "metrics_update">>]
    /\ BrkConfigUnchanged
    /\ UNCHANGED <<now, db, tasks, forwardFrame>>

\* stream_generator leaves its try block
FwdStreamEnd(ending) ==
    /\ fwd.pc = "stream"
    /\ LET k == circuit_key(fwd.provider)
           duration == now_ms(now) - fwd.start_time
       IN  CASE ending = "exhausted" ->
                    /\ scorer_stats' = scorer_update(scorer_stats, fwd.provider, fwd.model,
                                                     TRUE, <<duration>>, now_ms(now))
                    /\ BreakerCall("record_success", k)
             [] ending = "upstream_error" ->
                    /\ scorer_stats' = scorer_update(scorer_stats, fwd.provider, fwd.model,
                                                     FALSE, <<0>>, now_ms(now))
                    /\ NoBreakerCall
             [] ending = "cancelled" ->
                    /\ NoBreakerCall
                    /\ UNCHANGED scorer_stats
    /\ fwd' = [fwd EXCEPT !.pc = "stream_done", !.closed = TRUE]
    /\ BrkConfigUnchanged
    /\ UNCHANGED <<now, upstream_errors, db, tasks, forwardFrame>>

\* half a day passes; no stream stays open that long
FwdTick ==
    /\ fwd.pc # "stream"
    /\ now < (1 + ForwardMaxTicks) * (DECAY_HALF_LIFE_MS \div 1000)
    /\ now' = now + DECAY_HALF_LIFE_MS \div 1000
    /\ fwd' = NoForward
    /\ NoBreakerCall /\ BrkConfigUnchanged
    /\ UNCHANGED <<scorer_stats, upstream_errors, db, tasks, forwardFrame>>

\* the table when the forwards start: the provider was selected as active or
\* syncing and may have been rewritten or deleted since
ForwardRows ==
    {<<>>} \cup
    {[p \in CatalogProviders |-> ProviderRow(UpstreamA, s, ms, <<>>, <<>>)] :
        s \in {"active", "syncing"}, ms \in SUBSET CatalogModels}

SpecForwardInit ==
    /\ now = DECAY_HALF_LIFE_MS \div 1000
    /\ failure_threshold = MaxFailureThreshold
    /\ recovery_timeout = 1 /\ success_threshold = 1
    /\ BrkInit({circuit_key(p) : p \in CatalogProviders})
    /\ ScorerInit /\ FwdInit /\ AliasUnused /\ DispUnused
    /\ \E rows \in ForwardRows : CatInit(rows)
    /\ LimInit /\ CacheUnused /\ ChatUnused
    /\ LateUnused

SpecForwardNext ==
    \/ \E p \in CatalogProviders, model \in ForwardModels, stream \in BOOLEAN,
          out \in ForwardOutcomes : FwdCall(p, model, stream, out)
    \/ \E ending \in StreamEndings : FwdStreamEnd(ending)
    \/ FwdTick

SpecForward == SpecForwardInit /\ [][SpecForwardNext]_vars

\* the proxy executor over a database whose connection can fail
DbSteps == {"fetch_one", "execute_query"}

SpecForwardDbNext ==
    \/ \E p \in CatalogProviders, model \in ForwardModels, stream \in BOOLEAN,
          out \in ForwardOutcomes : FwdCall(p, model, stream, out)
    \/ \E p \in CatalogProviders, model \in ForwardModels, out \in ForwardOutcomes,
          step \in DbSteps : FwdCallDbError(p, model, out, step)
    \/ \E ending \in StreamEndings : FwdStreamEnd(ending)
    \/ FwdTick

SpecForwardDb == SpecForwardInit /\ [][SpecForwardDbNext]_vars

(* ------------- the provider manager and its background syncs ------------ *)
catFrame == <<brkVars, limVars, cacheVars, chatMaxRetries, reqs, scorerVars, fwdVars, aliasVars, dispVars, lateVars>>

CatCall(op, provider_id, model) ==
    [op |-> op, id |-> provider_id, model |-> model,
     pre_db |-> db, pre_tasks |-> tasks, pre_syncing |-> syncing]

\* add_provider: uuid4 gives an id that was never used
CatAdd(p, base_url) ==
    /\ Len(tasks) < MaxTasks
    /\ p \notin DOMAIN db
    /\ \A i \in DOMAIN tasks : tasks[i].id # p
    /\ db' = [q \in DOMAIN db \cup {p} |-> IF q = p THEN inserted_row(base_url) ELSE db[q]]
    /\ tasks' = Append(tasks, NewTask(p, base_url))
    /\ cat_last' = CatCall("add_provider", p, None)
    /\ UNCHANGED <<now, syncing, cooldowns, catFrame>>

\* update_provider: updates["baseUrl"] or the stored one
CatUpdate(p, base_url) ==
    /\ Len(tasks) < MaxTasks
    /\ p \in DOMAIN db
    /\ db' = [db EXCEPT ![p] = updated_row(base_url, now_ms(now))]
    /\ tasks' = Append(tasks, NewTask(p, base_url))
    /\ cat_last' = CatCall("update_provider", p, None) @@ [baseUrl |-> base_url]
    /\ UNCHANGED <<now, syncing, cooldowns, catFrame>>

CatRemove(p) ==
    /\ p \in DOMAIN db
    /\ db' = [q \in DOMAIN db \ {p} |-> db[q]]
    /\ cat_last' = CatCall("remove_provider", p, None)
    /\ UNCHANGED <<now, tasks, syncing, cooldowns, catFrame>>

\* trigger_resync, called by the admin route and by DispatcherService.penalize
CatResync(p) ==
    /\ Len(tasks) < MaxTasks
    /\ tasks' = trigger_resync(db, tasks, p)
    /\ cat_last' = CatCall("trigger_resync", p, None)
    /\ UNCHANGED <<now, db, syncing, cooldowns, catFrame>>

\* one round of start_periodic_sync
CatPeriodic ==
    /\ DOMAIN db # {}
    /\ Len(tasks) + Cardinality(DOMAIN db) <= MaxTasks
    /\ tasks' = create_tasks(tasks, db, DOMAIN db)
    /\ cat_last' = CatCall("start_periodic_sync", None, None)
    /\ UNCHANGED <<now, db, syncing, cooldowns, catFrame>>

CatHandleModelNotFound(p, m) ==
    /\ Len(tasks) < MaxTasks
    /\ LET h == handle_model_not_found(db, tasks, p, m, now_ms(now))
       IN  /\ db' = h.db
           /\ tasks' = h.tasks
           /\ cat_last' = CatCall("handle_model_not_found", p, m) @@ [ret |-> h.ret]
    /\ UNCHANGED <<now, syncing, cooldowns, catFrame>>

\* background_sync_task, lines 169-173: the guard and the add, with no await between
SyncEnter(i) ==
    /\ tasks[i].pc = "created"
    /\ IF in_progress(syncing, tasks[i].id)
       THEN /\ tasks' = [tasks EXCEPT ![i].pc = "skipped"]
            /\ UNCHANGED syncing
       ELSE /\ tasks' = [tasks EXCEPT ![i].pc = "entered"]
            /\ syncing' = syncing \cup {tasks[i].id}
    /\ cat_last' = CatCall("background_sync_task", tasks[i].id, None) @@ [task |-> i]
    /\ UNCHANGED <<now, db, cooldowns, catFrame>>

\* line 176
SyncMark(i) ==
    /\ tasks[i].pc = "entered"
    /\ db' = set_status(db, tasks[i].id, "syncing")
    /\ tasks' = [tasks EXCEPT ![i].pc = "fetching"]
    /\ cat_last' = NoCall
    /\ UNCHANGED <<now, syncing, cooldowns, catFrame>>

\* line 179
SyncFetch(i, res) ==
    /\ tasks[i].pc = "fetching"
    /\ tasks' = [tasks EXCEPT ![i] =
            IF res.ok THEN [@ EXCEPT !.pc = "clearing", !.todo = res.raw_models]
            ELSE [@ EXCEPT !.pc = "failed"]]
    /\ cat_last' = NoCall
    /\ UNCHANGED <<now, db, syncing, cooldowns, catFrame>>

\* line 187, and the models the loop will skip
SyncClear(i) ==
    /\ tasks[i].pc = "clearing"
    /\ db' = set_status_models(db, tasks[i].id, "syncing", {}, now_ms(now))
    /\ tasks' = [tasks EXCEPT ![i].pc = "verifying",
                              ![i].todo = {m \in @ : ~is_non_chat_model(m)}]
    /\ cat_last' = NoCall
    /\ UNCHANGED <<now, syncing, cooldowns, catFrame>>

\* one round of the loop, lines 197-216: the probe, the writes of a verified
\* model, and the log_sync call of either branch
SyncVerify(i, m, ok) ==
    /\ tasks[i].pc = "verifying"
    /\ m \in tasks[i].todo
    /\ tasks' = [tasks EXCEPT ![i].todo = @ \ {m},
                              ![i].valid_models = IF ok THEN @ \cup {m} ELSE @,
                              ![i].pc = IF log_sync_raises THEN "failed" ELSE "verifying"]
    /\ IF ok
       THEN /\ db' = set_status_models(db, tasks[i].id, "syncing",
                                       tasks[i].valid_models \cup {m}, now_ms(now))
            /\ cooldowns' = clear_cooldown(cooldowns, tasks[i].id, m)
       ELSE UNCHANGED <<db, cooldowns>>
    /\ cat_last' = NoCall
    /\ UNCHANGED <<now, syncing, catFrame>>

\* the end of a sync: how the coroutine ended and whether the summary failure
\* entry was written
SyncEnd(i, failed, logged, raised) ==
    [op |-> "sync_end", id |-> tasks[i].id, model |-> None, task |-> i,
     failed |-> failed, logged |-> logged, raised |-> raised,
     pre_db |-> db, pre_tasks |-> tasks, pre_syncing |-> syncing]

\* lines 219 and 228
SyncFinish(i) ==
    /\ tasks[i].pc = "verifying"
    /\ tasks[i].todo = {}
    /\ db' = set_status_models(db, tasks[i].id, "active", tasks[i].valid_models, now_ms(now))
    /\ syncing' = syncing \ {tasks[i].id}
    /\ tasks' = [tasks EXCEPT ![i].pc = "done"]
    /\ cat_last' = SyncEnd(i, FALSE, FALSE, FALSE)
    /\ UNCHANGED <<now, cooldowns, catFrame>>

\* lines 221-228: the status write, the log_sync call of the handler, and the
\* finally block, which runs whether or not the handler raised
SyncFail(i) ==
    /\ tasks[i].pc = "failed"
    /\ db' = set_status(db, tasks[i].id, "error")
    /\ syncing' = syncing \ {tasks[i].id}
    /\ tasks' = [tasks EXCEPT ![i].pc = IF log_sync_raises THEN "raised" ELSE "done"]
    /\ cat_last' = SyncEnd(i, TRUE, ~log_sync_raises, log_sync_raises)
    /\ UNCHANGED <<now, cooldowns, catFrame>>

\* line 176 when execute_query raises OperationalError: the statement is
\* outside the try block, so the coroutine ends with the exception and neither
\* the handler nor the finally block runs
SyncMarkDbError(i) ==
    /\ tasks[i].pc = "entered"
    /\ tasks' = [tasks EXCEPT ![i].pc = "raised"]
    /\ cat_last' = SyncEnd(i, TRUE, FALSE, TRUE)
    /\ UNCHANGED <<now, db, syncing, cooldowns, catFrame>>

CatTick ==
    /\ now < CatalogMaxTicks
    /\ now' = now + 1
    /\ cat_last' = NoCall
    /\ UNCHANGED <<db, tasks, syncing, cooldowns, catFrame>>

\* cooldown entries left by earlier requests
CatalogCooldowns ==
    {<<>>} \cup
    {[k \in {cooldown_key(p, m)} |-> [until |-> 1000, backoffMs |-> 1000, force |-> FALSE]] :
        p \in CatalogProviders, m \in {"gpt-4o"}}

\* the providers table when the process starts: empty, or a row kept in
\* the database file
CatalogTables ==
    {<<>>} \cup
    {[p \in CatalogProviders |-> ProviderRow(UpstreamA, "active", CatalogModels, <<0>>, <<0>>)]}

SpecCatalogInit ==
    /\ now = 0
    /\ \E rows \in CatalogTables : CatInit(rows)
    /\ BrkUnused /\ LimInit /\ CacheUnused /\ ScorerInit /\ FwdUnused /\ AliasUnused /\ DispUnused
    /\ chatMaxRetries = <<>> /\ reqs = <<>>
    /\ cooldowns \in CatalogCooldowns
    /\ LateUnused

SpecCatalogNext ==
    \/ \E p \in CatalogProviders, base_url \in BaseUrls : CatAdd(p, base_url)
    \/ \E p \in CatalogProviders, base_url \in BaseUrls : CatUpdate(p, base_url)
    \/ \E p \in CatalogProviders : CatRemove(p)
    \/ \E p \in CatalogProviders : CatResync(p)
    \/ CatPeriodic
    \/ \E p \in CatalogProviders, m \in CatalogModels : CatHandleModelNotFound(p, m)
    \/ \E i \in DOMAIN tasks : SyncEnter(i)
    \/ \E i \in DOMAIN tasks : SyncMark(i)
    \/ \E i \in DOMAIN tasks, res \in FetchResults : SyncFetch(i, res)
    \/ \E i \in DOMAIN tasks : SyncClear(i)
    \/ \E i \in DOMAIN tasks, m \in UpstreamModels, ok \in BOOLEAN : SyncVerify(i, m, ok)
    \/ \E i \in DOMAIN tasks : SyncFinish(i)
    \/ \E i \in DOMAIN tasks : SyncFail(i)
    \/ CatTick

SpecCatalog == SpecCatalogInit /\ [][SpecCatalogNext]_vars

\* the sync tasks over a database whose connection can fail
SpecCatalogDbNext ==
    \/ \E p \in CatalogProviders : CatResync(p)
    \/ \E p \in CatalogProviders, m \in CatalogModels : CatHandleModelNotFound(p, m)
    \/ \E i \in DOMAIN tasks : SyncEnter(i)
    \/ \E i \in DOMAIN tasks : SyncMark(i)
    \/ \E i \in DOMAIN tasks : SyncMarkDbError(i)
    \/ \E i \in DOMAIN tasks, res \in FetchResults : SyncFetch(i, res)
    \/ \E i \in DOMAIN tasks : SyncClear(i)
    \/ \E i \in DOMAIN tasks, m \in UpstreamModels, ok \in BOOLEAN : SyncVerify(i, m, ok)
    \/ \E i \in DOMAIN tasks : SyncFinish(i)
    \/ \E i \in DOMAIN tasks : SyncFail(i)

SpecCatalogDb == SpecCatalogInit /\ [][SpecCatalogDbNext]_vars

(* --------------------- the alias maps and the listing ------------------- *)
aliasFrame == <<now, brkVars, limVars, cacheVars, chatVars, scorerVars, catVars, fwdVars, dispVars, lateVars>>

\* a sync stores one more identifier in the list of a provider
AliasAddModel(p, raw) ==
    /\ Len(flatten(catalogs)) < MaxCatalogModels
    /\ \A i \in DOMAIN catalogs[p] : catalogs[p][i] # raw
    /\ catalogs' = [catalogs EXCEPT ![p] = Append(@, raw)]
    /\ alias_last' = NoCall
    /\ UNCHANGED aliasFrame

AliasBuild ==
    /\ alias_last' = [op |-> "build_model_alias_maps",
                      maps |-> build_model_alias_maps(catalogs)]
    /\ UNCHANGED <<catalogs, aliasFrame>>

AliasGetModels ==
    /\ alias_last' = [op |-> "get_models", data |-> get_models(catalogs)]
    /\ UNCHANGED <<catalogs, aliasFrame>>

SpecAliasInit ==
    /\ now = 0
    /\ AliasInit
    /\ BrkUnused /\ LimInit /\ CacheUnused /\ ChatUnused
    /\ ScorerInit /\ CatUnused /\ FwdUnused /\ DispUnused
    /\ LateUnused

SpecAliasNext ==
    \/ \E p \in 1..2, raw \in RawIdentifiers : AliasAddModel(p, raw)
    \/ AliasBuild
    \/ AliasGetModels

SpecAlias == SpecAliasInit /\ [][SpecAliasNext]_vars

(* ------------------ the alias maps of versioned names ------------------ *)
SpecVersionsInit == SpecAliasInit

SpecVersionsNext ==
    \/ \E p \in 1..2, raw \in VersionedIdentifiers : AliasAddModel(p, raw)
    \/ AliasBuild

SpecVersions == SpecVersionsInit /\ [][SpecVersionsNext]_vars

(* ----------------- the dispatcher called as a library ------------------ *)
dispFrame == <<limVars, cacheVars, chatMaxRetries, reqs, syncing, cat_last, fwdVars, aliasVars,
               checks, lateVars>>

\* the models requested and the models penalized
DispatchModels == {gpt_4o, v2_beta}

\* the exclusion lists of the calls
ExclusionLists == {{}, {"A"}}

\* the samples score_for returns, by rank
Scores == 1..MaxScore

\* the arm that is penalized, and the provider whose attempts fail
PenalizedArms == {<<"A", gpt_4o_mini>>}

FailingProviders == {"A"}

\* get_provider_for_model up to the loop over the candidates
DispStart(model_name, excluded_ids) ==
    /\ disp.pc = "idle"
    /\ \E all_rows \in {get_all(db)} :
       \E alias_maps \in {build_model_alias_maps(
                              [i \in DOMAIN all_rows |-> all_rows[i].models])} :
       \E variants \in {resolve_variants(alias_maps, model_name)} :
       \E todo \in {candidates_of(all_rows, variants, excluded_ids)} :
          disp' = [pc |-> IF todo = <<>> THEN "done" ELSE "avail",
                   model_name |-> model_name, excluded_ids |-> excluded_ids,
                   variants |-> variants, todo |-> todo,
                   scored |-> <<>>, result |-> NoPair,
                   candidates |-> [i \in DOMAIN todo |-> todo[i].id],
                   checked |-> <<>>]
    /\ disp_last' = NoCall
    /\ NoBreakerCall /\ BrkConfigUnchanged
    /\ UNCHANGED <<now, cooldowns, scorer_stats, db, tasks, dispatcher_settings,
                   penalty_counts, dispFrame>>

\* one round of the loop: random.choice, _is_available, score_for, the score
\* being a random sample; after the last round the greatest score decides.
\* candidates and checked are history: the ids the filter kept, and the answer
\* of _is_available for each provider checked so far
DispAvail ==
    /\ disp.pc = "avail"
    /\ LET p == Head(disp.todo)
           k == circuit_key(p.id)
           allowed == is_allowed(circuits[k], now).ret
           max_penalty_ms == get_number(dispatcher_settings.max_penalty_ms, MAX_PENALTY_MS)
       IN  \E resolved_model \in {v \in disp.variants : listed(p.models, v)},
              probe_ok \in BOOLEAN, score \in Scores :
            LET cd == IF allowed
                      THEN cooldown_available(cooldowns, p, resolved_model,
                                              max_penalty_ms, now, probe_ok)
                      ELSE [ret |-> FALSE, cooldowns |-> cooldowns, probes |-> 0,
                            raised |-> FALSE]
                scored == IF cd.ret
                          THEN Append(disp.scored, [provider |-> p.id,
                                                    resolvedModel |-> resolved_model,
                                                    score |-> score])
                          ELSE disp.scored
                last == Tail(disp.todo) = <<>>
            IN  /\ BreakerCall("is_allowed", k)
                /\ cooldowns' = cd.cooldowns
                /\ scorer_stats' = IF cd.ret
                                   THEN score_for(scorer_stats, p.id, resolved_model, now_ms(now))
                                   ELSE scorer_stats
                /\ disp_last' = [op |-> "_is_available", provider |-> p,
                                 model_name |-> resolved_model, allowed |-> allowed,
                                 pre |-> cooldowns, t |-> now, probe_ok |-> probe_ok,
                                 max_penalty_ms |-> max_penalty_ms,
                                 ret |-> cd.ret, probes |-> cd.probes,
                                 raised |-> cd.raised]
                /\ (~cd.ret => score = 1)
                /\ disp' = [disp EXCEPT
                       !.todo = Tail(@), !.scored = scored,
                       !.checked = Append(@, [provider |-> p.id, available |-> cd.ret]),
                       !.pc = IF cd.raised THEN "raised"
                              ELSE IF last THEN "done" ELSE "avail",
                       !.result = IF ~cd.raised /\ last /\ scored # <<>>
                                  THEN [provider |-> picked_of(scored).provider,
                                        resolvedModel |-> picked_of(scored).resolvedModel]
                                  ELSE NoPair]
    /\ BrkConfigUnchanged
    /\ UNCHANGED <<now, db, tasks, dispatcher_settings, penalty_counts, dispFrame>>

\* the caller takes the result or the exception
DispReturn ==
    /\ disp.pc \in {"done", "raised"}
    /\ disp' = IdleDispatch
    /\ disp_last' = NoCall
    /\ NoBreakerCall /\ BrkConfigUnchanged
    /\ UNCHANGED <<now, cooldowns, scorer_stats, db, tasks, dispatcher_settings,
                   penalty_counts, dispFrame>>

\* penalize without a duration, clear_cooldown, the failures and the clock act
\* between two calls of get_provider_for_model
DispPenalize(provider_id, model_name, force) ==
    /\ disp.pc = "idle"
    /\ LET r == penalize(cooldowns, penalty_counts, db, tasks, dispatcher_settings,
                         provider_id, model_name, <<>>, force, now)
       IN  /\ cooldowns' = r.cooldowns
           /\ penalty_counts' = r.penalty_counts
           /\ tasks' = r.tasks
    /\ disp_last' = [op |-> "penalized", provider |-> provider_id, model_name |-> model_name]
    /\ NoBreakerCall /\ BrkConfigUnchanged
    /\ UNCHANGED <<now, scorer_stats, db, dispatcher_settings, disp, dispFrame>>

\* the admin route clear_cooldown
DispClearCooldown(provider_id, model_name) ==
    /\ disp.pc = "idle"
    /\ cooldowns' = clear_cooldown(cooldowns, provider_id, model_name)
    /\ disp_last' = NoCall
    /\ NoBreakerCall /\ BrkConfigUnchanged
    /\ UNCHANGED <<now, scorer_stats, db, tasks, dispatcher_settings, penalty_counts,
                   disp, dispFrame>>

\* a failed attempt at a provider the breaker admitted, reported to the breaker
DispRecordFailure(provider_id) ==
    /\ disp.pc = "idle"
    /\ circuits[circuit_key(provider_id)].state # "open"
    /\ circuits[circuit_key(provider_id)].failure_count < MaxFailureCount
    /\ BreakerCall("record_failure", circuit_key(provider_id))
    /\ disp_last' = NoCall
    /\ BrkConfigUnchanged
    /\ UNCHANGED <<now, cooldowns, scorer_stats, db, tasks, dispatcher_settings,
                   penalty_counts, disp, dispFrame>>

DispTick ==
    /\ disp.pc = "idle"
    /\ now < (1 + DispatcherMaxTicks) * DispatcherTick
    /\ now' = now + DispatcherTick
    /\ disp_last' = NoCall
    /\ NoBreakerCall /\ BrkConfigUnchanged
    /\ UNCHANGED <<cooldowns, scorer_stats, db, tasks, dispatcher_settings, penalty_counts,
                   disp, dispFrame>>

\* the rows of the table: A lists two spellings of gpt-4o and was synced at the
\* start or never, B lists a third spelling
DispatchTables ==
    {[id \in DispatchProviders |->
        IF id = "A" THEN ProviderRow(UpstreamA, sa, <<gpt_4o_mini, vendor_gpt_4o>>, la, <<>>)
        ELSE ProviderRow(UpstreamB, sb, mb, <<>>, <<>>)] :
        sa \in ProviderStatuses, la \in {<<>>, <<now_ms(DispatcherTick)>>},
        sb \in {"active"}, mb \in {<<models_gpt_4o_latest>>}}

DispatchSettings ==
    {[initial_penalty_ms |-> <<DispatcherTick * 1000>>,
      max_penalty_ms |-> <<DispatcherTick * 1500>>,
      resync_threshold |-> <<2>>, resync_cooldown_ms |-> <<>>]}

SpecDispatcherInit ==
    /\ now = DispatcherTick
    /\ failure_threshold = 1 /\ recovery_timeout = DispatcherTick /\ success_threshold = 1
    /\ BrkInit({circuit_key(p) : p \in DispatchProviders})
    /\ \E rows \in DispatchTables : CatInit(rows)
    /\ \E settings \in DispatchSettings : DispInit(settings)
    /\ chatMaxRetries = <<>> /\ reqs = <<>> /\ cooldowns = <<>>
    /\ ScorerInit /\ FwdUnused /\ AliasUnused
    /\ LimInit /\ CacheUnused
    /\ LateUnused

SpecDispatcherNext ==
    \/ \E m \in DispatchModels, ex \in ExclusionLists : DispStart(m, ex)
    \/ DispAvail
    \/ DispReturn
    \/ \E arm \in PenalizedArms, force \in BOOLEAN : DispPenalize(arm[1], arm[2], force)
    \/ \E arm \in PenalizedArms : DispClearCooldown(arm[1], arm[2])
    \/ \E p \in FailingProviders : DispRecordFailure(p)
    \/ DispTick

SpecDispatcher == SpecDispatcherInit /\ [][SpecDispatcherNext]_vars

(* ---------------------- penalize called as a library -------------------- *)
\* the arms penalized and the durations given: none, one below and one above
\* the initial penalty of DispatchSettings
PenalizeArms == {<<"A", gpt_4o_mini>>, <<"B", models_gpt_4o_latest>>}

PenaltyDurations == {<<>>, <<DispatcherTick * 500>>, <<DispatcherTick * 1250>>,
                     <<DispatcherTick * 2000>>}

PenCall(provider_id, model_name, duration, force) ==
    /\ LET r == penalize(cooldowns, penalty_counts, db, tasks, dispatcher_settings,
                         provider_id, model_name, duration, force, now)
       IN  /\ cooldowns' = r.cooldowns
           /\ penalty_counts' = r.penalty_counts
           /\ tasks' = r.tasks
           /\ disp_last' = [op |-> "penalize", provider |-> provider_id,
                            model_name |-> model_name,
                            duration |-> duration, force |-> force, t |-> now,
                            pre |-> cooldowns, pre_counts |-> penalty_counts,
                            pre_tasks |-> tasks, raised |-> r.raised]
    /\ NoBreakerCall /\ BrkConfigUnchanged
    /\ UNCHANGED <<now, scorer_stats, db, dispatcher_settings, disp, dispFrame>>

\* the table with and without the row of provider A
PenalizeTables ==
    {[id \in ids |-> ProviderRow(UpstreamA, "active", <<>>, <<>>, <<>>)] : ids \in {{"A", "B"}, {"B"}}}

SpecPenalizeInit ==
    /\ now = DispatcherTick
    /\ failure_threshold = 1 /\ recovery_timeout = DispatcherTick /\ success_threshold = 1
    /\ BrkInit({circuit_key(p) : p \in DispatchProviders})
    /\ \E rows \in PenalizeTables : CatInit(rows)
    /\ \E settings \in DispatchSettings : DispInit(settings)
    /\ chatMaxRetries = <<>> /\ reqs = <<>> /\ cooldowns = <<>>
    /\ ScorerInit /\ FwdUnused /\ AliasUnused
    /\ LimInit /\ CacheUnused
    /\ LateUnused

SpecPenalizeNext ==
    \/ \E arm \in PenalizeArms, duration \in PenaltyDurations, force \in BOOLEAN :
          PenCall(arm[1], arm[2], duration, force)
    \/ \E arm \in PenalizeArms : DispClearCooldown(arm[1], arm[2])
    \/ DispTick

SpecPenalize == SpecPenalizeInit /\ [][SpecPenalizeNext]_vars

(* ------------- _is_available, one await at a time, several calls --------- *)
availFrame == <<limVars, cacheVars, chatMaxRetries, reqs, syncing, cat_last, fwdVars, aliasVars,
                scorer_stats, db, tasks, dispatcher_settings, penalty_counts, disp, disp_last, lateVars>>

\* the calls in flight and the pair they all check
AvailCalls == {1, 2}

CheckedProvider == "A"

CheckedModel == gpt_4o_mini

\* lines 126-137: the breaker is asked, the entry is read and the call waits
\* for the setting dispatcher_max_penalty_ms
AvailEnter(c) ==
    /\ checks[c].pc = "idle"
    /\ LET rows == get_all(db)
           k == circuit_key(CheckedProvider)
           allowed == is_allowed(circuits[k], now).ret
           key == cooldown_key(CheckedProvider, CheckedModel)
       IN  \E i \in DOMAIN rows :
            /\ rows[i].id = CheckedProvider
            /\ BreakerCall("is_allowed", k)
            /\ checks' = [checks EXCEPT ![c] =
                    [pc |-> IF allowed THEN "settings" ELSE "returned",
                     provider |-> rows[i], model_name |-> CheckedModel,
                     entry |-> IF key \in DOMAIN cooldowns THEN <<cooldowns[key]>> ELSE <<>>,
                     ret |-> FALSE]]
    /\ BrkConfigUnchanged
    /\ UNCHANGED <<now, cooldowns, availFrame>>

\* lines 139-156: the setting arrived; the entry read before the wait decides,
\* and an expired one starts the probe
AvailSettings(c) ==
    /\ checks[c].pc = "settings"
    /\ LET q == checks[c]
           key == cooldown_key(q.provider.id, q.model_name)
           recent == recently_synced(q.provider, now)
       IN  IF q.entry = <<>>
           THEN /\ checks' = [checks EXCEPT ![c].pc = "returned", ![c].ret = TRUE]
                /\ UNCHANGED cooldowns
           ELSE IF ~q.entry[1].force /\ recent
           THEN /\ checks' = [checks EXCEPT ![c].pc = after_del(cooldowns, key),
                                            ![c].ret = key \in DOMAIN cooldowns]
                /\ cooldowns' = cooldowns_del(cooldowns, key)
           ELSE IF q.entry[1].until > now_ms(now)
           THEN /\ checks' = [checks EXCEPT ![c].pc = "returned", ![c].ret = FALSE]
                /\ UNCHANGED cooldowns
           ELSE /\ checks' = [checks EXCEPT ![c].pc = "probe"]
                /\ UNCHANGED cooldowns
    /\ NoBreakerCall /\ BrkConfigUnchanged
    /\ UNCHANGED <<now, availFrame>>

\* lines 157-164: _probe_model answered
AvailProbe(c, ok) ==
    /\ checks[c].pc = "probe"
    /\ LET q == checks[c]
           key == cooldown_key(q.provider.id, q.model_name)
           max_penalty_ms == get_number(dispatcher_settings.max_penalty_ms, MAX_PENALTY_MS)
       IN  IF ok
           THEN /\ checks' = [checks EXCEPT ![c].pc = after_del(cooldowns, key),
                                            ![c].ret = key \in DOMAIN cooldowns]
                /\ cooldowns' = cooldowns_del(cooldowns, key)
           ELSE LET sc == set_cooldown(cooldowns, key,
                                       next_backoff(q.entry[1], max_penalty_ms), FALSE, now)
                IN  /\ checks' = [checks EXCEPT
                           ![c].pc = IF sc.raised THEN "raised" ELSE "returned",
                           ![c].ret = FALSE]
                    /\ cooldowns' = sc.cooldowns
    /\ NoBreakerCall /\ BrkConfigUnchanged
    /\ UNCHANGED <<now, availFrame>>

\* the dispatcher took the answer of the call
AvailReturn(c) ==
    /\ checks[c].pc = "returned"
    /\ checks' = [checks EXCEPT ![c] = IdleCheck]
    /\ NoBreakerCall /\ BrkConfigUnchanged
    /\ UNCHANGED <<now, cooldowns, availFrame>>

\* penalize puts the pair on cooldown
AvailPenalize(force) ==
    /\ LET r == penalize(cooldowns, penalty_counts, db, tasks, dispatcher_settings,
                         CheckedProvider, CheckedModel, <<>>, force, now)
       IN  /\ cooldowns' = r.cooldowns
           /\ penalty_counts' = r.penalty_counts
           /\ tasks' = r.tasks
    /\ NoBreakerCall /\ BrkConfigUnchanged
    /\ UNCHANGED <<now, checks, limVars, cacheVars, chatMaxRetries, reqs, syncing, cat_last,
                   fwdVars, aliasVars, scorer_stats, db, dispatcher_settings, disp,
                   disp_last, lateVars>>

\* clear_cooldown, called by a sync that verified the model or by the admin route
AvailClearCooldown ==
    /\ cooldowns' = clear_cooldown(cooldowns, CheckedProvider, CheckedModel)
    /\ NoBreakerCall /\ BrkConfigUnchanged
    /\ UNCHANGED <<now, checks, availFrame>>

AvailTick ==
    /\ now < (1 + DispatcherMaxTicks) * DispatcherTick
    /\ now' = now + DispatcherTick
    /\ NoBreakerCall /\ BrkConfigUnchanged
    /\ UNCHANGED <<cooldowns, checks, availFrame>>

SpecAvailInit ==
    /\ now = DispatcherTick
    /\ failure_threshold = 1 /\ recovery_timeout = DispatcherTick /\ success_threshold = 1
    /\ BrkInit({circuit_key(p) : p \in DispatchProviders})
    /\ \E rows \in DispatchTables : CatInit(rows)
    /\ dispatcher_settings \in DispatchSettings
    /\ penalty_counts = <<>> /\ disp = IdleDispatch /\ disp_last = NoCall
    /\ checks = [c \in AvailCalls |-> IdleCheck]
    /\ chatMaxRetries = <<>> /\ reqs = <<>> /\ cooldowns = <<>>
    /\ ScorerInit /\ FwdUnused /\ AliasUnused
    /\ LimInit /\ CacheUnused
    /\ LateUnused

SpecAvailNext ==
    \/ \E c \in AvailCalls : AvailEnter(c)
    \/ \E c \in AvailCalls : AvailSettings(c)
    \/ \E c \in AvailCalls, ok \in BOOLEAN : AvailProbe(c, ok)
    \/ \E c \in AvailCalls : AvailReturn(c)
    \/ \E force \in BOOLEAN : AvailPenalize(force)
    \/ AvailClearCooldown
    \/ AvailTick

SpecAvail == SpecAvailInit /\ [][SpecAvailNext]_vars

(* --------------------------- the log batcher --------------------------- *)
batchFrame == <<now, brkVars, limVars, cacheVars, chatVars, scorerVars, catVars, fwdVars,
                aliasVars, dispVars, sseVars, provVars>>

\* LogBatcher.add: the append and, at batch size, the create_task of a flush
BatchAdd ==
    /\ added < MaxAdds
    /\ LET entry == added + 1
           queue == deque_append(log_queue, entry)
           scheduled == Len(queue) >= LOG_BATCH_SIZE
       IN  /\ scheduled => Len(flushes) < MaxFlushes
           /\ log_queue' = queue
           /\ added' = entry
           /\ flushes' = IF scheduled THEN Append(flushes, NewFlush("size")) ELSE flushes
           /\ batch_last' = [op |-> "add", entry |-> entry,
                             pre_queue |-> log_queue, pre_flushes |-> flushes,
                             writing |-> {i \in DOMAIN flushes : flushes[i].pc = "writing"}]
    /\ UNCHANGED <<written, batcher_running, batchFrame>>

\* _periodic_flush after its sleep: the test of line 69 and the flush call up
\* to its first await
BatchPeriodic ==
    /\ batcher_running
    /\ Len(flushes) < MaxFlushes
    /\ \A i \in DOMAIN flushes : flushes[i].kind = "periodic" => flushes[i].pc # "writing"
    /\ log_queue # <<>>
    /\ LET f == flush_start(log_queue, NewFlush("periodic"))
       IN  /\ flushes' = Append(flushes, f.rec)
           /\ log_queue' = f.queue
    /\ batch_last' = NoCall
    /\ UNCHANGED <<written, added, batcher_running, batchFrame>>

\* a flush created by add or called by stop runs lines 75-78
FlushStart(i) ==
    /\ flushes[i].pc = "created"
    /\ LET f == flush_start(log_queue, flushes[i])
       IN  /\ flushes' = [flushes EXCEPT ![i] = f.rec]
           /\ log_queue' = f.queue
    /\ batch_last' = NoCall
    /\ UNCHANGED <<written, added, batcher_running, batchFrame>>

\* lines 83-97: the inserts and the commit, or an exception that is logged
FlushWrite(i, ok) ==
    /\ flushes[i].pc = "writing"
    /\ flushes' = [flushes EXCEPT ![i].pc = IF ok THEN "done" ELSE "failed"]
    /\ written' = IF ok THEN written \cup {<<e, i>> : e \in Range(flushes[i].entries)}
                  ELSE written
    /\ batch_last' = NoCall
    /\ UNCHANGED <<log_queue, added, batcher_running, batchFrame>>

\* LogBatcher.stop: the periodic task is cancelled (at the await of its flush
\* when it is in one) and a last flush is called
BatchStop ==
    /\ batcher_running
    /\ Len(flushes) < MaxFlushes
    /\ batcher_running' = FALSE
    /\ flushes' = Append([i \in DOMAIN flushes |->
                            IF flushes[i].kind = "periodic" /\ flushes[i].pc = "writing"
                            THEN [flushes[i] EXCEPT !.pc = "cancelled"]
                            ELSE flushes[i]],
                         NewFlush("stop"))
    /\ batch_last' = NoCall
    /\ UNCHANGED <<log_queue, written, added, batchFrame>>

SpecBatcherInit ==
    /\ now = 0
    /\ BatchInit /\ SseUnused /\ ProvUnused
    /\ BrkUnused /\ LimInit /\ CacheUnused /\ ChatUnused
    /\ ScorerInit /\ CatUnused /\ FwdUnused /\ AliasUnused /\ DispUnused

SpecBatcherNext ==
    \/ BatchAdd
    \/ BatchPeriodic
    \/ \E i \in DOMAIN flushes : FlushStart(i)
    \/ \E i \in DOMAIN flushes, ok \in BOOLEAN : FlushWrite(i, ok)
    \/ BatchStop

SpecBatcher == SpecBatcherInit /\ [][SpecBatcherNext]_vars

(* ------------------------ the event subscribers ------------------------ *)
sseFrame == <<now, brkVars, limVars, cacheVars, chatVars, scorerVars, catVars, fwdVars,
              aliasVars, dispVars, batchVars, provVars>>

\* LogService.subscribe, called by event_generator: a new queue joins the set
SseSubscribe ==
    /\ Len(queues) < MaxQueues
    /\ queues' = Append(queues, <<>>)
    /\ listeners' = listeners \cup {Len(queues) + 1}
    /\ sse_last' = NoCall
    /\ UNCHANGED <<events, sseFrame>>

\* LogService.unsubscribe, in the finally block of event_generator
SseUnsubscribe(q) ==
    /\ q \in listeners
    /\ listeners' = listeners \ {q}
    /\ sse_last' = [op |-> "unsubscribe", queue |-> q]
    /\ UNCHANGED <<queues, events, sseFrame>>

\* LogService.broadcast: nothing happens without listeners
SseBroadcast ==
    /\ events < MaxEvents
    /\ events' = events + 1
    /\ queues' = IF listeners = {} THEN queues ELSE broadcast(listeners, queues, events + 1)
    /\ sse_last' = [op |-> "broadcast", event |-> events + 1, pre_queues |-> queues]
    /\ UNCHANGED <<listeners, sseFrame>>

\* queue.get() in event_generator: the subscriber reads its oldest event
SseGet(q) ==
    /\ q \in listeners
    /\ queues[q] # <<>>
    /\ queues' = [queues EXCEPT ![q] = Tail(@)]
    /\ sse_last' = NoCall
    /\ UNCHANGED <<listeners, events, sseFrame>>

SpecSseInit ==
    /\ now = 0
    /\ SseInit /\ BatchUnused /\ ProvUnused
    /\ BrkUnused /\ LimInit /\ CacheUnused /\ ChatUnused
    /\ ScorerInit /\ CatUnused /\ FwdUnused /\ AliasUnused /\ DispUnused

SpecSseNext ==
    \/ SseSubscribe
    \/ \E q \in DOMAIN queues : SseUnsubscribe(q)
    \/ SseBroadcast
    \/ \E q \in DOMAIN queues : SseGet(q)

SpecSse == SpecSseInit /\ [][SpecSseNext]_vars

(* ------------- the provider list read through the TTL cache ------------- *)
provFrame == <<brkVars, limVars, max_size, default_ttl, lastSet, cache_last, recency,
               chatVars, scorerVars, syncing, cat_last, fwdVars, aliasVars, dispVars,
               batchVars, sseVars>>

\* who calls get_all: the admin listing, or get_provider_for_model for a model
GetCallers ==
    {[kind |-> "api", model_name |-> None]} \cup
    {[kind |-> "dispatcher", model_name |-> m] : m \in CatalogModels}

\* get_all, lines 27-34: cache.get; a hit returns the cached list
GetAllEnter(caller) ==
    /\ Len(gets) < MaxReads
    /\ \E res \in {cache_get(cache, cache_key, now)} :
          /\ cache' = res.cache
          /\ hits' = IF res.hit THEN hits + 1 ELSE hits
          /\ misses' = IF res.hit THEN misses ELSE misses + 1
          /\ gets' = Append(gets, IF res.hit THEN NewGet(caller, "returned", res.ret)
                                  ELSE NewGet(caller, "reading", <<>>))
          /\ prov_last' = IF res.hit
                          THEN [op |-> "get_all", call |-> Len(gets) + 1, hit |-> TRUE]
                          ELSE NoCall
    /\ UNCHANGED <<now, db, tasks, unlisted, provFrame>>

\* lines 37-52: the query
GetAllRead(c) ==
    /\ gets[c].pc = "reading"
    /\ gets' = [gets EXCEPT ![c].pc = "storing", ![c].rows = get_all(db)]
    /\ prov_last' = NoCall
    /\ UNCHANGED <<now, db, tasks, cache, hits, misses, unlisted, provFrame>>

\* lines 55-59: cache.set and the return
GetAllStore(c) ==
    /\ gets[c].pc = "storing"
    /\ cache' = cache_set(cache, cache_key, gets[c].rows, NoTtl, now)
    /\ gets' = [gets EXCEPT ![c].pc = "returned"]
    /\ prov_last' = [op |-> "get_all", call |-> c, hit |-> FALSE]
    /\ UNCHANGED <<now, db, tasks, hits, misses, unlisted, provFrame>>

\* get_provider_for_model after its get_all returned: no cooldown entry and a
\* closed breaker make every candidate available, and the sampled scores can
\* put any of them first
GetDecide(c, pair) ==
    /\ gets[c].pc = "returned"
    /\ gets[c].caller.kind = "dispatcher"
    /\ IF selectable(gets[c].rows, gets[c].caller.model_name) = {}
       THEN pair = <<None, None>>
       ELSE pair \in selectable(gets[c].rows, gets[c].caller.model_name)
    /\ gets' = [gets EXCEPT ![c].pc = "decided"]
    /\ prov_last' = [op |-> "decision", call |-> c, pair |-> pair]
    /\ UNCHANGED <<now, db, tasks, cache, hits, misses, unlisted, provFrame>>

\* handle_model_not_found, called by forward_request: no cache is touched
ProvHandleModelNotFound(p, m) ==
    /\ Len(tasks) < MaxTasks
    /\ \E h \in {handle_model_not_found(db, tasks, p, m, now_ms(now))} :
          /\ db' = h.db
          /\ tasks' = h.tasks
          /\ unlisted' = IF h.ret THEN unlisted \cup {<<p, m>>} ELSE unlisted
    /\ prov_last' = NoCall
    /\ UNCHANGED <<now, cache, hits, misses, gets, provFrame>>

\* the get_all calls between their cache miss and their return
overlap(gs) ==
    [c \in DOMAIN gs |->
        IF gs[c].pc \in {"reading", "storing"} THEN [gs[c] EXCEPT !.overlapped = TRUE]
        ELSE gs[c]]

\* add_provider: the INSERT, invalidate_providers, and the sync task
ProvAdd(p, base_url) ==
    /\ Len(tasks) < MaxTasks
    /\ p \notin DOMAIN db
    /\ \A i \in DOMAIN tasks : tasks[i].id # p
    /\ db' = [q \in DOMAIN db \cup {p} |-> IF q = p THEN inserted_row(base_url) ELSE db[q]]
    /\ tasks' = Append(tasks, NewTask(p, base_url))
    /\ cache' = <<>>
    /\ gets' = overlap(gets)
    /\ prov_last' = NoCall
    /\ UNCHANGED <<now, hits, misses, unlisted, provFrame>>

\* remove_provider: the DELETE and invalidate_providers
ProvRemove(p) ==
    /\ p \in DOMAIN db
    /\ db' = [q \in DOMAIN db \ {p} |-> db[q]]
    /\ cache' = <<>>
    /\ gets' = overlap(gets)
    /\ unlisted' = {pair \in unlisted : pair[1] # p}
    /\ prov_last' = NoCall
    /\ UNCHANGED <<now, tasks, hits, misses, provFrame>>

ProvTick ==
    /\ now < ProvMaxTicks
    /\ now' = now + 1
    /\ prov_last' = NoCall
    /\ UNCHANGED <<db, tasks, cache, hits, misses, gets, unlisted, provFrame>>

SpecProvidersInit ==
    /\ now = 0
    /\ \E rows \in CatalogTables : CatInit(rows)
    /\ max_size = 1 /\ default_ttl = CACHE_TTL_PROVIDERS /\ CacheInit
    /\ ProvInit /\ BatchUnused /\ SseUnused
    /\ BrkUnused /\ LimInit /\ ChatUnused
    /\ ScorerInit /\ FwdUnused /\ AliasUnused /\ DispUnused

SpecProvidersNext ==
    \/ \E caller \in GetCallers : GetAllEnter(caller)
    \/ \E c \in DOMAIN gets : GetAllRead(c)
    \/ \E c \in DOMAIN gets : GetAllStore(c)
    \/ \E c \in DOMAIN gets, pair \in (CatalogProviders \cup {None}) \X (CatalogModels \cup {None}) :
          GetDecide(c, pair)
    \/ \E p \in CatalogProviders, m \in CatalogModels : ProvHandleModelNotFound(p, m)
    \/ \E p \in CatalogProviders : ProvAdd(p, UpstreamB)
    \/ \E p \in CatalogProviders : ProvRemove(p)
    \/ ProvTick

SpecProviders == SpecProvidersInit /\ [][SpecProvidersNext]_vars

(***************************************************************************)
(* Claims                                                                  *)
(***************************************************************************)
(* ----------------------- claims on the breaker ------------------------- *)
\* the stats the last breaker call left behind (Tick clears brk_last, so `now` is
\* the time of that call)
BrkPost == circuits[brk_last.key]

\* C2: an is_allowed call on an open breaker made before recovery_timeout has
\* elapsed since opened_at returns false and leaves the stats as they were; one
\* made at or after it returns true and, in the same step, leaves the breaker
\* half_open with failure_count = success_count = 0.
C2_OpenAllowCheck ==
    (brk_last.op = "is_allowed" /\ brk_last.pre.state = "open") =>
        /\ (now - brk_last.pre.opened_at < recovery_timeout) =>
                (~brk_last.ret /\ BrkPost = brk_last.pre)
        /\ (now - brk_last.pre.opened_at >= recovery_timeout) =>
                /\ brk_last.ret
                /\ BrkPost.state = "half_open"
                /\ BrkPost.failure_count = 0
                /\ BrkPost.success_count = 0

C2_Witness ==
    /\ brk_last.op = "is_allowed" /\ brk_last.pre.state = "open"
    /\ brk_last.ret
    /\ now - brk_last.pre.opened_at = recovery_timeout
    /\ brk_last.pre.failure_count > 0
    /\ BrkPost.state = "half_open"

\* C3 (as claimed): while a key is half_open and the outcome of the admitted
\* probe has not been recorded, no further is_allowed call for the key returns true.
C3_SingleProbe ==
    ~(/\ brk_last.op = "is_allowed"
      /\ brk_last.pre.state = "half_open"
      /\ brk_last.pending
      /\ brk_last.ret)

\* C4: in half_open a record_success closes the breaker, with both counters
\* reset, exactly when it is the success_threshold-th in a row there, and
\* otherwise leaves it half_open; a record_failure in half_open reopens it with
\* opened_at = the time of the failure, so is_allowed denies again until a full
\* recovery_timeout has passed.
C4_HalfOpenOutcome ==
    /\ (brk_last.op = "record_success" /\ brk_last.pre.state = "half_open") =>
            IF halfOpenSucc[brk_last.key] >= success_threshold
            THEN /\ BrkPost.state = "closed"
                 /\ BrkPost.failure_count = 0 /\ BrkPost.success_count = 0
            ELSE /\ BrkPost.state = "half_open"
                 /\ BrkPost.success_count = halfOpenSucc[brk_last.key]
    /\ (brk_last.op = "record_failure" /\ brk_last.pre.state = "half_open") =>
            /\ BrkPost.state = "open"
            /\ BrkPost.opened_at = now
            /\ ~is_allowed(BrkPost, now).ret
            /\ \A t \in now..(now + recovery_timeout - 1) : ~is_allowed(BrkPost, t).ret

C4_Witness ==
    /\ brk_last.op = "record_failure" /\ brk_last.pre.state = "half_open"
    /\ brk_last.pre.success_count >= 1
    /\ brk_last.pre.opened_at < now
    /\ BrkPost.state = "open"

(* ----------------------- claims on the limiter ------------------------- *)
LimSlots == 0..current_slot(LimMaxTime)

\* the count a windows map holds for (key, slot): an absent key or slot counts 0
Count(w, k, sl) == IF k \in DOMAIN w /\ sl \in DOMAIN w[k] THEN w[k][sl] ELSE 0

RECURSIVE SumCount(_, _, _)
SumCount(w, k, slots) ==
    IF slots = {} THEN 0
    ELSE LET s == CHOOSE x \in slots : TRUE
         IN  Count(w, k, s) + SumCount(w, k, slots \ {s})

\* the latest slot_count slots at the time of the last call, the current one included
LatestSlots == {sl \in LimSlots : current_slot(now) - slot_count < sl /\ sl <= current_slot(now)}

\* what check(key) adds to (k, sl)
Added(k, sl) ==
    IF lim_last.result.allowed /\ k = lim_last.key /\ sl = current_slot(now) THEN 1 ELSE 0

C5_AllowedIff ==
    lim_last.result.allowed <=> SumCount(lim_last.pre, lim_last.key, LatestSlots) < max_requests

\* C5 (as claimed): check(key) allows exactly when the key's counts over the
\* latest slot_count slots sum to less than max_requests at entry; an allowed
\* check adds 1 to the current slot of the key and changes no other count, and a
\* denied check changes no count at all.
C5_CheckOnlyCounts ==
    lim_last.op = "check" =>
        /\ C5_AllowedIff
        /\ \A k \in LimKeys, sl \in LimSlots :
                Count(windows, k, sl) = Count(lim_last.pre, k, sl) + Added(k, sl)

\* C5 (amended): as above for every slot not older than current_slot - slot_count;
\* the older slots, which lie outside the window, are left alone unless
\* cleanup_interval has passed since the last cleanup, and are then deleted for
\* every key by the same check, allowed or denied.
C5_CheckCountsAndCleanup ==
    lim_last.op = "check" =>
        /\ C5_AllowedIff
        /\ \A k \in LimKeys, sl \in LimSlots :
                IF sl >= current_slot(now) - slot_count
                THEN Count(windows, k, sl) = Count(lim_last.pre, k, sl) + Added(k, sl)
                ELSE Count(windows, k, sl) =
                        IF now - lim_last.pre_cleanup >= cleanup_interval
                        THEN 0 ELSE Count(lim_last.pre, k, sl)

\* the (max_requests + 1)-th check in one window is denied and counts nothing
C5_Witness ==
    /\ lim_last.op = "check"
    /\ ~lim_last.result.allowed
    /\ SumCount(lim_last.pre, lim_last.key, LatestSlots) = max_requests
    /\ Count(lim_last.pre, lim_last.key, current_slot(now)) = max_requests
    /\ windows = lim_last.pre

(* ------------------------ claims on the cache -------------------------- *)
\* C6: after set(k, v, ttl = T) at time t0 with T positive, and while the entry
\* was not evicted for capacity, deleted or overwritten, a get(k) before
\* t0 + T returns v and a get(k) after t0 + T returns none, counts a miss and
\* leaves no entry for k.
C6_TtlContract ==
    (cache_last.op = "get" /\ lastSet.covered /\ lastSet.key = cache_last.key) =>
        /\ (now < lastSet.t0 + lastSet.ttl) => cache_last.ret = lastSet.value
        /\ (now > lastSet.t0 + lastSet.ttl) =>
                (cache_last.ret = None /\ cache_last.key \notin cache_keys(cache))

\* a get after the expiry that finds the entry still stored and drops it,
\* for a ttl that is not the default
C6_Witness ==
    /\ cache_last.op = "get" /\ lastSet.covered /\ lastSet.key = cache_last.key
    /\ lastSet.ttl # default_ttl
    /\ now > lastSet.t0 + lastSet.ttl
    /\ cache_last.had
    /\ cache_last.ret = None
    /\ misses > 0

\* C27: the cache never holds more than max_size entries; a set of a new key
\* into a full cache evicts exactly the least recently used key (used: returned
\* by get, or set); a set of a stored key stores the value and leaves the set
\* of keys as it was.
C27_BoundedLru ==
    /\ Len(cache) <= max_size
    /\ cache_last.op = "set" =>
          /\ cache_entry(cache, cache_last.key).value = cache_last.value
          /\ cache_keys(cache) =
                IF cache_last.had THEN cache_last.pre_keys
                ELSE IF Cardinality(cache_last.pre_keys) = max_size
                THEN (cache_last.pre_keys \ {Head(cache_last.pre_recency)})
                        \cup {cache_last.key}
                ELSE cache_last.pre_keys \cup {cache_last.key}

\* a set of a third key into a full cache of two, after a get made the older
\* entry the more recent one: the entry set last was evicted
C27_Witness ==
    /\ cache_last.op = "set" /\ ~cache_last.had
    /\ max_size = LruMaxSize
    /\ Cardinality(cache_last.pre_keys) = max_size
    /\ hits > 0
    /\ Len(cache) = max_size
    /\ cache[1].key = cache_last.pre_recency[2]
    /\ \E k \in cache_last.pre_keys :
          /\ k \notin cache_keys(cache)
          /\ k = Head(cache_last.pre_recency)

(* ---------------------- claims on the chat path ------------------------ *)
Is2xx(status) == status \in 200..299

FailedAttempt(a) == a.kind = "exception" \/ ~Is2xx(a.status)

\* C1: a closed breaker opens exactly at the record_failure that brings the run
\* of failures with no record_success in between to failure_threshold, and no
\* other call moves it out of closed; an open breaker answers is_allowed with
\* false as long as less than recovery_timeout has passed since opened_at; and a
\* provider whose is_allowed returned false during a selection is neither scored
\* nor returned by that selection.
C1_OpensAtThresholdAndIsSkipped ==
    /\ \A k \in CircuitKeys :
        /\ circuits[k].state = "closed" =>
                /\ consecFail[k] < failure_threshold
                /\ circuits[k].failure_count = consecFail[k]
        /\ circuits[k].state = "open" =>
                \A t \in circuits[k].opened_at..(circuits[k].opened_at + recovery_timeout - 1) :
                    ~is_allowed(circuits[k], t).ret
    /\ (brk_last.op = "record_failure" /\ brk_last.pre.state = "closed") =>
            IF consecFail[brk_last.key] = failure_threshold
            THEN BrkPost.state = "open" /\ BrkPost.opened_at = now
            ELSE BrkPost.state = "closed"
    /\ (brk_last.op \in {"is_allowed", "record_success"} /\ brk_last.pre.state = "closed") =>
            BrkPost.state = "closed"
    /\ (/\ brk_last.op = "is_allowed" /\ brk_last.pre.state = "open"
        /\ now - brk_last.pre.opened_at < recovery_timeout) =>
            ~brk_last.ret /\ BrkPost.state = "open"
    /\ \A r \in Requests :
        /\ reqs[r].scored \cap reqs[r].denied = {}
        /\ reqs[r].pc = "forward" => reqs[r].provider \notin reqs[r].denied

\* the breaker of A opened at the second failure in a row, and the selection
\* that followed skipped A and returned B
C1_Witness ==
    /\ failure_threshold = 2
    /\ circuits["provider:A"].state = "open"
    /\ consecFail["provider:A"] = 2
    /\ reqs["r1"].pc = "forward"
    /\ reqs["r1"].denied = {"A"}
    /\ reqs["r1"].provider = "B"

\* the cap on forward attempts that chat_completions reads from the settings
ChatRetryCap ==
    IF chatMaxRetries = <<>> THEN DefaultChatMaxRetries ELSE chatMaxRetries[1]

LogProviders(q) == {q.log[i].provider : i \in DOMAIN q.log}

\* C7: within one request at most chat_max_retries forwards are started, each
\* one goes to a provider no earlier attempt of the request went to, the tried
\* set is exactly the providers forwarded to, and an attempt that returned 2xx
\* is the last one.
C7_RetryDiscipline ==
    \A r \in Requests :
        LET q == reqs[r]
            running == IF q.pc = "forward" THEN {q.provider} ELSE {}
        IN  /\ Len(q.log) + Cardinality(running) <= ChatRetryCap
            /\ \A i, j \in DOMAIN q.log : q.log[i].provider = q.log[j].provider => i = j
            /\ running \cap LogProviders(q) = {}
            /\ q.tried = LogProviders(q) \cup running
            /\ \A i \in DOMAIN q.log :
                    (q.log[i].kind = "response" /\ Is2xx(q.log[i].status)) =>
                        i = Len(q.log) /\ q.pc \in {"stream", "done"}

\* with chatMaxRetries = 1 the request ended after one failed attempt although
\* the other provider was never tried
C7_Witness ==
    /\ chatMaxRetries = <<1>>
    /\ reqs["r1"].pc = "done"
    /\ Len(reqs["r1"].log) = 1
    /\ reqs["r1"].log[1].status = 500
    /\ circuits["provider:B"].state = "closed"

HttpErrors(q) ==
    {i \in DOMAIN q.log : q.log[i].kind = "response" /\ ~Is2xx(q.log[i].status)}

LastOf(S) == CHOOSE i \in S : \A j \in S : j <= i

\* C8: a request that passed the key check ends with the first 2xx upstream
\* response if an attempt produced one; with 404 model_not_found if no attempt
\* was made at all; otherwise with the last non-2xx upstream response if any
\* attempt produced one, and with 502 upstream_error when every attempt raised.
C8_ResultDetermination ==
    \A r \in Requests :
        LET q == reqs[r]
            n == Len(q.log)
        IN  (q.pc \in {"stream", "done"} /\ q.result.code # "invalid_api_key") =>
                IF \E i \in DOMAIN q.log : ~FailedAttempt(q.log[i])
                THEN /\ q.result.origin = "upstream" /\ q.result.status = q.log[n].status
                     /\ Is2xx(q.result.status)
                     /\ \A i \in 1..(n - 1) : FailedAttempt(q.log[i])
                ELSE IF n = 0
                THEN q.result = [status |-> 404, origin |-> "gateway", code |-> "model_not_found"]
                ELSE IF HttpErrors(q) # {}
                THEN /\ q.result.origin = "upstream"
                     /\ q.result.status = q.log[LastOf(HttpErrors(q))].status
                ELSE q.result = [status |-> 502, origin |-> "gateway", code |-> "upstream_error"]

\* the first attempt returned 503, the second raised: the result is the 503
C8_Witness ==
    /\ reqs["r1"].pc = "done"
    /\ Len(reqs["r1"].log) = 2
    /\ reqs["r1"].log[1].status = 503
    /\ reqs["r1"].log[2].kind = "exception"
    /\ reqs["r1"].result.status = 503

\* C9 (as claimed): once a forward attempt has failed, the breaker of its
\* provider has recorded the failure and a cooldown entry exists for the
\* (provider, model) pair of the attempt.
C9_FailedAttemptPenalized ==
    \A r \in Requests :
        LET q == reqs[r]
        IN  \A i \in DOMAIN q.log :
                FailedAttempt(q.log[i]) =>
                    /\ (i = Len(q.log) /\ q.pc \in {"dispatch", "done"}) => q.breaker = "failure"
                    /\ cooldown_key(q.log[i].provider, q.model) \in DOMAIN cooldowns

\* C10 (as claimed): when a 2xx streaming response is over, the upstream
\* response is closed and an outcome was recorded: success after a clean end of
\* the stream, failure after any interruption, a cancellation included.
C10_StreamOutcomeRecorded ==
    \A r \in Requests :
        LET q == reqs[r]
        IN  (q.pc = "done" /\ q.result.code = "stream") =>
                /\ q.upstream = "closed"
                /\ q.ending = "exhausted" => q.scorer = "success"
                /\ q.ending \in {"upstream_error", "cancelled"} => q.scorer = "failure"

(* ------------------------ claims on the scorer ------------------------- *)
AtLeastOne(x) == x.n >= x.d

\* C17: after any sequence of update and score_for calls at non-decreasing
\* times, alpha >= 1 and beta >= 1 hold for every arm the scorer has stored.
C17_AlphaBetaAtLeastOne ==
    \A k \in DOMAIN scorer_stats : AtLeastOne(scorer_stats[k].alpha) /\ AtLeastOne(scorer_stats[k].beta)

\* an arm with successes and failures whose parameters were decayed below 2 by
\* score_for
C17_Witness ==
    \E k \in DOMAIN scorer_stats :
        /\ scorer_stats[k].total_success >= 1 /\ scorer_stats[k].total_failure >= 1
        /\ scorer_stats[k].last_updated < now_ms(now)
        /\ scorer_stats[k].alpha.d > 1 /\ scorer_stats[k].alpha.n < 2 * scorer_stats[k].alpha.d
        /\ scorer_stats[k].beta.d > 1

(* -------------------- claims on the proxy executor --------------------- *)
\* the arm of the last forward_request call before the call (a fresh arm if the
\* scorer had none) and after it
FwdArm == scorer_key(fwd.provider, fwd.model)

FwdPreStat ==
    IF FwdArm \in DOMAIN fwd.pre_stats
    THEN fwd.pre_stats[FwdArm]
    ELSE ProviderStats(fwd.start_time)

FwdPostStat == scorer_stats[FwdArm]

FwdAnswered2xx == fwd.pc # "none" /\ fwd.out.kind = "response" /\ is_success(fwd.out.status)

\* C11 (as claimed): a forward_request for a non-streaming payload whose
\* upstream answered 2xx has recorded one success in the scorer (alpha is the
\* decayed alpha plus 1, beta only decays) and one in the breaker of the
\* provider, no failure, and has returned a 2xx response.
C11_NonStreamingSuccess ==
    (FwdAnswered2xx /\ ~fwd.stream) =>
        /\ fwd.pc = "returned" /\ is_success(fwd.ret.status)
        /\ FwdPostStat.total_success = FwdPreStat.total_success + 1
        /\ FwdPostStat.total_failure = FwdPreStat.total_failure
        /\ FwdPostStat.alpha.n * apply_decay(FwdPreStat, fwd.start_time).alpha.d
              > apply_decay(FwdPreStat, fwd.start_time).alpha.n * FwdPostStat.alpha.d
        /\ brk_last.op = "record_success" /\ brk_last.key = circuit_key(fwd.provider)
        /\ upstream_errors = fwd.pre_errors

\* C12: a forward_request whose upstream answered non-2xx has recorded one
\* failure and no success in the scorer arm, one failure in the breaker of the
\* provider, counted and broadcast an error event, run the model-not-found
\* handler exactly if the status is 404 or the body contains model_not_found
\* (leaving the table and the sync tasks alone otherwise), and returned a
\* response with the status and the body of the upstream.
C12_NonSuccessResponse ==
    (fwd.pc # "none" /\ fwd.out.kind = "response" /\ ~is_success(fwd.out.status)) =>
        /\ fwd.pc = "returned"
        /\ fwd.ret = [status |-> fwd.out.status, body |-> fwd.out.body]
        /\ FwdPostStat.total_failure = FwdPreStat.total_failure + 1
        /\ FwdPostStat.total_success = FwdPreStat.total_success
        /\ FwdPostStat.samples = FwdPreStat.samples + 1
        /\ brk_last.op = "record_failure" /\ brk_last.key = circuit_key(fwd.provider)
        /\ BrkPost.failure_count = brk_last.pre.failure_count + 1
        /\ upstream_errors = fwd.pre_errors + 1
        /\ \E i \in DOMAIN fwd.events : fwd.events[i] = "error"
        /\ fwd.handler <=> (fwd.out.status = 404
                                \/ fwd.out.body = "{\"error\": \"model_not_found\"}")
        /\ IF fwd.handler
           THEN LET h == handle_model_not_found(fwd.pre_db, fwd.pre_tasks, fwd.provider,
                                                fwd.model, fwd.start_time)
                IN  db = h.db /\ tasks = h.tasks
           ELSE db = fwd.pre_db /\ tasks = fwd.pre_tasks

\* a 500 whose body names model_not_found ran the handler, which removed the
\* model from the row and created a sync task
C12_Witness ==
    /\ fwd.pc = "returned"
    /\ fwd.out.status = 500
    /\ fwd.handler
    /\ fwd.ret.status = 500
    /\ fwd.provider \in DOMAIN db
    /\ fwd.model \in fwd.pre_db[fwd.provider].models
    /\ fwd.model \notin db[fwd.provider].models
    /\ Len(tasks) = Len(fwd.pre_tasks) + 1
    /\ FwdPreStat.total_failure >= 1

\* C24: whenever forward_request or its stream_generator has recorded a
\* failure in the scorer arm of the call, an interrupted 2xx stream included,
\* the same step called record_failure on the breaker of the provider.
C24_FailureReachesBreaker ==
    (/\ fwd.pc # "none"
     /\ FwdArm \in DOMAIN scorer_stats
     /\ FwdPostStat.total_failure > FwdPreStat.total_failure) =>
        /\ brk_last.op = "record_failure"
        /\ brk_last.key = circuit_key(fwd.provider)

(* -------------------- claims on the provider manager ------------------- *)
\* C13: handle_model_not_found(provider, m) on a row that lists m leaves the row
\* with its list minus m (every other model kept), status syncing, and one more
\* background sync task for that provider, other rows untouched; when the row
\* does not list m or does not exist, the table is as before and no task is
\* created.
C13_HandleModelNotFound ==
    cat_last.op = "handle_model_not_found" =>
        LET p == cat_last.id
            m == cat_last.model
            pre == cat_last.pre_db
        IN  IF p \in DOMAIN pre /\ m \in pre[p].models
            THEN /\ DOMAIN db = DOMAIN pre
                 /\ db[p].models = pre[p].models \ {m}
                 /\ db[p].status = "syncing"
                 /\ \A q \in DOMAIN pre \ {p} : db[q] = pre[q]
                 /\ Len(tasks) = Len(cat_last.pre_tasks) + 1
                 /\ SubSeq(tasks, 1, Len(cat_last.pre_tasks)) = cat_last.pre_tasks
                 /\ tasks[Len(tasks)].id = p /\ tasks[Len(tasks)].pc = "created"
                 /\ cat_last.ret
            ELSE /\ db = pre
                 /\ tasks = cat_last.pre_tasks
                 /\ ~cat_last.ret

\* the handler removed one of two listed models
C13_Witness ==
    /\ cat_last.op = "handle_model_not_found"
    /\ cat_last.ret
    /\ cat_last.pre_db[cat_last.id].models = CatalogModels
    /\ cat_last.pre_db[cat_last.id].status = "active"
    /\ db[cat_last.id].models = CatalogModels \ {cat_last.model}
    /\ db[cat_last.id].status = "syncing"
    /\ tasks[Len(tasks)].pc = "created"

\* the tasks of provider p that are past the guard in the sequence tk
Running(tk, p) == {i \in DOMAIN tk : tk[i].id = p /\ tk[i].pc \in PastGuard}

\* C18: for every provider id at most one background sync task is past the
\* in-progress guard, whatever created the tasks and however they interleave;
\* and a task that reaches the guard while another task of its id is past it
\* returns there, the providers table and the in-progress set left as they were.
C18_OneSyncPerProvider ==
    /\ \A p \in CatalogProviders : Cardinality(Running(tasks, p)) <= 1
    /\ (cat_last.op = "background_sync_task"
            /\ Running(cat_last.pre_tasks, cat_last.id) # {}) =>
          /\ tasks[cat_last.task].pc = "skipped"
          /\ db = cat_last.pre_db
          /\ syncing = cat_last.pre_syncing
          /\ Running(tasks, cat_last.id) = Running(cat_last.pre_tasks, cat_last.id)

\* a task was turned away at the guard while another one had verified a model,
\* and a third one of another trigger is still to run
C18_Witness ==
    /\ cat_last.op = "background_sync_task"
    /\ tasks[cat_last.task].pc = "skipped"
    /\ \E j \in DOMAIN tasks :
          /\ tasks[j].id = cat_last.id
          /\ tasks[j].pc \in PastGuard
          /\ tasks[j].valid_models # {}
    /\ \E j \in DOMAIN tasks : tasks[j].pc = "created"

\* C25: every background sync that passed the guard ends with the row active
\* and listing exactly the models verified in this run, or with the row in
\* error when a step raised; it never ends with the row still syncing, a failed
\* sync has written its summary failure entry, and no exception leaves the task.
C25_SyncEndsActiveOrError ==
    cat_last.op = "sync_end" =>
        /\ ~cat_last.raised
        /\ cat_last.failed => cat_last.logged
        /\ cat_last.id \in DOMAIN db =>
              IF cat_last.failed
              THEN db[cat_last.id].status = "error"
              ELSE /\ db[cat_last.id].status = "active"
                   /\ db[cat_last.id].models = tasks[cat_last.task].valid_models

\* C26: a provider made active by a sync is made active by a sync of its
\* current record: the baseUrl (key, blacklist) the sync validated against is
\* the one stored in the row, also when update_provider ran during the sync.
C26_ActiveFromCurrentRecord ==
    (cat_last.op = "sync_end" /\ ~cat_last.failed /\ cat_last.id \in DOMAIN db) =>
        tasks[cat_last.task].baseUrl = db[cat_last.id].baseUrl

(* -------------------------- claims on scoring -------------------------- *)
\* C29: a score_for call leaves every stored arm as it was: last_updated is
\* not stamped and alpha and beta are the ones stored before the call, so that
\* scoring any number of times between two updates changes nothing.
C29_ScoringDoesNotAge ==
    [][(\E p \in ScorerProviders, m \in ScorerModels : ScorerScoreFor(p, m)) =>
            scorer_stats' = scorer_stats]_vars

(* ------------------------ claims on model names ------------------------ *)
\* the raw identifiers stored in the catalogs
CatalogRaws == {flatten(catalogs)[i] : i \in DOMAIN flatten(catalogs)}

\* C15 (as claimed): after build_model_alias_maps every raw identifier r of every
\* catalog has variant_to_canonical[r] defined, canonical_to_variants has that
\* canonical as a key, and the variants stored under it contain r.
C15_AliasRoundTrip ==
    alias_last.op = "build_model_alias_maps" =>
        \A r \in CatalogRaws :
            /\ r \in DOMAIN alias_last.maps.variant_to_canonical
            /\ alias_last.maps.variant_to_canonical[r]
                  \in DOMAIN alias_last.maps.canonical_to_variants
            /\ r \in alias_last.maps.canonical_to_variants[
                        alias_last.maps.variant_to_canonical[r]]

\* C16 (as claimed): for the catalog gpt-4o-2024-05-13, gpt-4o-mini,
\* models/gpt-4o-latest, vendor/gpt-4o the listing is gpt-4o and nothing else,
\* the four identifiers map to the canonical gpt-4o, and the canonical of the
\* dated identifier carries no part of the date.
C16_SingleFamilyGpt4o ==
    (alias_last.op = "get_models"
        /\ CatalogRaws = {gpt_4o_2024_05_13, gpt_4o_mini, models_gpt_4o_latest, vendor_gpt_4o}) =>
            /\ alias_last.data = <<gpt_4o>>
            /\ DOMAIN build_model_alias_maps(catalogs).canonical_to_variants = {gpt_4o}
            /\ \A r \in CatalogRaws :
                  build_model_alias_maps(catalogs).variant_to_canonical[r] = gpt_4o
            /\ normalize_model_name(gpt_4o_2024_05_13).canonical = gpt_4o

\* the candidate the claim prefers: without a versioned candidate the first
\* one, otherwise the first of the versioned candidates that no other exceeds
\* under compare_version_parts
claimed_preferred(entry) ==
    LET with_version == SelectSeq(entry.candidates, LAMBDA c : c.version # <<>>)
    IN  IF with_version = <<>> THEN entry.candidates[1]
        ELSE with_version[CHOOSE i \in DOMAIN with_version :
                /\ \A j \in DOMAIN with_version :
                      compare_version_parts(with_version[j].version, with_version[i].version) <= 0
                /\ \A j \in 1..(i - 1) :
                      compare_version_parts(with_version[j].version, with_version[i].version) < 0]

\* C28: every identifier of a family maps to the canonical of the family's
\* candidate of highest version, versions compared element by element with
\* missing elements read as 0 and equal versions decided by catalog order;
\* a candidate without a version is taken only when none has one.
C28_PreferredHighestVersion ==
    alias_last.op = "build_model_alias_maps" =>
        LET raws == flatten(catalogs)
            infos == [i \in DOMAIN raws |-> normalize_model_name(raws[i])]
        IN  \A i \in DOMAIN infos :
                alias_last.maps.variant_to_canonical[raws[i]] =
                    claimed_preferred(family_entry(infos, family_key_of(infos[i]))).canonical

(* ------------------------ claims on the dispatcher --------------------- *)
\* C14: when get_provider_for_model returns a pair, the row of the provider is
\* active or syncing (never pending or error), its id is not excluded, it lists
\* the resolved model, and the resolved model is one of the variants the alias
\* maps store for the canonical name of the requested model.
C14_DispatchedPair ==
    (disp.pc = "done" /\ disp.result # NoPair) =>
        LET rows == get_all(db)
            maps == build_model_alias_maps([i \in DOMAIN rows |-> rows[i].models])
            requested == normalize_model_name(disp.model_name).canonical
        IN  /\ \E i \in DOMAIN rows :
                  /\ rows[i].id = disp.result.provider
                  /\ rows[i].status \in {"active", "syncing"}
                  /\ rows[i].status \notin {"pending", "error"}
                  /\ listed(rows[i].models, disp.result.resolvedModel)
            /\ disp.result.provider \notin disp.excluded_ids
            /\ requested \in DOMAIN maps.variant_to_canonical
            /\ maps.variant_to_canonical[requested] \in DOMAIN maps.canonical_to_variants
            /\ disp.result.resolvedModel
                  \in maps.canonical_to_variants[maps.variant_to_canonical[requested]]

\* gpt-4o was requested with nothing excluded while A was pending or in error:
\* B was returned with its own spelling of the model
C14_Witness ==
    /\ disp.pc = "done"
    /\ disp.model_name = gpt_4o
    /\ disp.excluded_ids = {}
    /\ db["A"].status \in {"pending", "error"}
    /\ disp.result # NoPair
    /\ disp.result.provider = "B"
    /\ disp.result.resolvedModel = models_gpt_4o_latest

\* the cooldown entry _is_available found, and whether the provider was synced
\* within the last five minutes
CheckedKey == cooldown_key(disp_last.provider.id, disp_last.model_name)

CheckedRecentSync ==
    /\ disp_last.provider.lastSyncedAt # <<>>
    /\ now_ms(disp_last.t) - disp_last.provider.lastSyncedAt[1] < 5 * 60 * 1000

\* C19: an _is_available call that the breaker allowed returns available and
\* leaves the table alone when the arm has no cooldown entry; deletes the entry
\* and returns available when the entry has no force flag and the provider was
\* synced within the last 5 minutes; returns unavailable and leaves the entry as
\* it is when the entry has the force flag and its until is in the future,
\* recent sync or not.
C19_CooldownAvailability ==
    (disp_last.op = "_is_available" /\ disp_last.allowed) =>
        /\ CheckedKey \notin DOMAIN disp_last.pre =>
              disp_last.ret /\ cooldowns = disp_last.pre /\ disp_last.probes = 0
        /\ (/\ CheckedKey \in DOMAIN disp_last.pre
            /\ ~disp_last.pre[CheckedKey].force
            /\ CheckedRecentSync) =>
              disp_last.ret /\ CheckedKey \notin DOMAIN cooldowns
        /\ (/\ CheckedKey \in DOMAIN disp_last.pre
            /\ disp_last.pre[CheckedKey].force
            /\ disp_last.pre[CheckedKey].until > now_ms(disp_last.t)) =>
              ~disp_last.ret /\ cooldowns = disp_last.pre

\* a forced entry that has not expired kept a recently synced provider out
C19_Witness ==
    /\ disp_last.op = "_is_available"
    /\ disp_last.allowed
    /\ CheckedKey \in DOMAIN disp_last.pre
    /\ disp_last.pre[CheckedKey].force
    /\ disp_last.pre[CheckedKey].until > now_ms(disp_last.t)
    /\ CheckedRecentSync
    /\ ~disp_last.ret
    /\ cooldowns[CheckedKey] = disp_last.pre[CheckedKey]

\* C20: an _is_available call that the breaker allowed and that finds an entry
\* whose until has passed, the entry being forced or the provider not recently
\* synced, probes once; when the probe succeeds the entry is deleted and the arm
\* is available; when it fails the call returns unavailable and the entry has
\* backoff min(2 x the previous backoff, max_penalty_ms) and until = now + that
\* backoff.
C20_ProbeAfterExpiry ==
    (/\ disp_last.op = "_is_available"
     /\ disp_last.allowed
     /\ CheckedKey \in DOMAIN disp_last.pre
     /\ disp_last.pre[CheckedKey].until <= now_ms(disp_last.t)
     /\ (disp_last.pre[CheckedKey].force \/ ~CheckedRecentSync)) =>
        /\ disp_last.probes = 1
        /\ IF disp_last.probe_ok
           THEN disp_last.ret /\ CheckedKey \notin DOMAIN cooldowns
           ELSE /\ ~disp_last.ret /\ ~disp_last.raised
                /\ CheckedKey \in DOMAIN cooldowns
                /\ cooldowns[CheckedKey].backoffMs =
                      Min(2 * disp_last.pre[CheckedKey].backoffMs, disp_last.max_penalty_ms)
                /\ cooldowns[CheckedKey].until =
                      now_ms(disp_last.t) + cooldowns[CheckedKey].backoffMs

\* the arm of the last penalize call, and the settings it read
PenalizedKey == cooldown_key(disp_last.provider, disp_last.model_name)

PenalizeInitial == get_number(dispatcher_settings.initial_penalty_ms, INITIAL_PENALTY_MS)

PenalizeMaximum == get_number(dispatcher_settings.max_penalty_ms, MAX_PENALTY_MS)

\* C21: penalize returns and leaves a cooldown entry for the pair whose backoff is
\* min(2 x the backoff of the entry it found, max_penalty_ms) when it found one
\* and max(duration, initial_penalty_ms) otherwise (an absent duration being
\* the initial penalty), whose until is now + backoff and whose force is the
\* argument; the penalty counter of the pair is one more than before, or 0 when
\* this call triggered a resync, and no other pair's counter changes.
C21_PenalizeBackoff ==
    disp_last.op = "penalize" =>
        LET backoff ==
                IF PenalizedKey \in DOMAIN disp_last.pre
                THEN Min(2 * disp_last.pre[PenalizedKey].backoffMs, PenalizeMaximum)
                ELSE Max(get_number(disp_last.duration, PenalizeInitial), PenalizeInitial)
            before == penalty_of(disp_last.pre_counts, PenalizedKey).count
            triggered == Len(tasks) > Len(disp_last.pre_tasks)
        IN  /\ ~disp_last.raised
            /\ PenalizedKey \in DOMAIN cooldowns
            /\ cooldowns[PenalizedKey].backoffMs = backoff
            /\ cooldowns[PenalizedKey].until = now_ms(disp_last.t) + backoff
            /\ cooldowns[PenalizedKey].force = disp_last.force
            /\ PenalizedKey \in DOMAIN penalty_counts
            /\ penalty_counts[PenalizedKey].count = (IF triggered THEN 0 ELSE before + 1)
            /\ (penalty_counts[PenalizedKey].count = 0) => triggered
            /\ \A k \in DOMAIN disp_last.pre_counts \ {PenalizedKey} :
                  k \in DOMAIN penalty_counts /\ penalty_counts[k] = disp_last.pre_counts[k]

\* C22: no _is_available call raises: whatever the interleaving of the calls
\* checking one pair, of clear_cooldown and of penalize at their awaits, a call
\* ends by returning available or unavailable.
C22_AvailabilityNeverRaises ==
    \A c \in DOMAIN checks : checks[c].pc # "raised"

\* the number of entries of scored for a provider
TimesScored(provider_id) ==
    Cardinality({i \in DOMAIN disp.scored : disp.scored[i].provider = provider_id})

Taken(i) == Range(flushes[i].entries)

\* no entry is written by two flushes, and no entry is with two flushes or
\* with a flush and still in the queue
TakenOnce ==
    /\ \A e \in 1..added : Cardinality({i \in DOMAIN flushes : <<e, i>> \in written}) <= 1
    /\ \A i, j \in DOMAIN flushes : i # j => Taken(i) \cap Taken(j) = {}
    /\ \A i \in DOMAIN flushes : Taken(i) \cap Range(log_queue) = {}

\* an add leaves its entry at the end of the queue and the flushes that are
\* writing as they were, and creates one flush when the queue has reached
\* LOG_BATCH_SIZE and none otherwise
AddQueues ==
    batch_last.op = "add" =>
        /\ log_queue # <<>> /\ log_queue[Len(log_queue)] = batch_last.entry
        /\ \A i \in batch_last.writing :
              flushes[i] = batch_last.pre_flushes[i] /\ batch_last.entry \notin Taken(i)
        /\ flushes = IF Len(log_queue) >= LOG_BATCH_SIZE
                     THEN Append(batch_last.pre_flushes, NewFlush("size"))
                     ELSE batch_last.pre_flushes

\* C30 (as claimed): no entry is written by more than one flush; every entry
\* added is in the queue until a flush takes it, an entry added during the
\* database write of another flush included; an add that leaves LOG_BATCH_SIZE
\* or more entries queued schedules a flush.
C30_EntriesWaitForFlush ==
    /\ TakenOnce
    /\ AddQueues
    /\ \A e \in 1..added :
          e \in Range(log_queue) \/ \E i \in DOMAIN flushes : e \in Taken(i)

\* C30 (amended): as above, except that an entry leaves the queue without a
\* flush when maxlen entries were added after it: the deque drops its oldest
\* entry on an append at capacity.
C30_AtomicTake ==
    /\ TakenOnce
    /\ AddQueues
    /\ \A e \in 1..added :
          \/ e \in Range(log_queue)
          \/ \E i \in DOMAIN flushes : e \in Taken(i)
          \/ added - e >= maxlen

\* an add made during the database write of a flush, after an earlier flush
\* has written its entries: the entry is queued behind another one and a
\* further flush is scheduled
C30_Witness ==
    /\ batch_last.op = "add"
    /\ \E i \in batch_last.writing : batch_last.entry - 1 \notin Taken(i)
    /\ written # {}
    /\ Len(log_queue) = LOG_BATCH_SIZE
    /\ flushes[Len(flushes)] = NewFlush("size")

(* ------------------- claims on the event subscribers ------------------- *)
\* C31: in a broadcast every subscribed queue below capacity gets
\* the event once, at its end; a subscribed queue at capacity is left as it
\* was and stays subscribed, the others being served all the same; no queue
\* holds more than maxsize events; and a queue that is not subscribed gets
\* nothing.
C31_BroadcastDelivery ==
    /\ \A q \in DOMAIN queues : Len(queues[q]) <= maxsize
    /\ sse_last.op = "broadcast" =>
          /\ DOMAIN queues = DOMAIN sse_last.pre_queues
          /\ \A q \in DOMAIN queues :
                queues[q] =
                    IF q \in listeners /\ Len(sse_last.pre_queues[q]) < maxsize
                    THEN Append(sse_last.pre_queues[q], sse_last.event)
                    ELSE sse_last.pre_queues[q]
          /\ \A q \in DOMAIN queues : \A i, j \in DOMAIN queues[q] :
                i < j => queues[q][i] < queues[q][j]

\* a broadcast to three queues: one subscribed and full, one subscribed that
\* took the event behind an earlier one, one unsubscribed with room
C31_Witness ==
    /\ sse_last.op = "broadcast"
    /\ \E q \in DOMAIN queues \ listeners :
          /\ Len(queues[q]) < maxsize
          /\ queues[q] # <<>>
    /\ \E q \in listeners :
          /\ Len(sse_last.pre_queues[q]) = maxsize
          /\ queues[q] = sse_last.pre_queues[q]
    /\ \E q \in listeners :
          /\ Len(sse_last.pre_queues[q]) < maxsize
          /\ queues[q][Len(queues[q])] = sse_last.event
          /\ Len(queues[q]) > 1

(* ------------------- claims on the outcomes of one call ----------------- *)
\* C32 (as claimed): a forward_request call delivers at most one outcome to
\* the scorer arm of the call and at most one to the breaker of the provider,
\* also when handle_model_not_found raises after the non-2xx failure was
\* recorded: the arm has at most one more sample and the circuit at most one
\* more failure than when the call started, and one error was counted at most.
C32_OneOutcomePerCall ==
    (fwd.pc # "none" /\ FwdArm \in DOMAIN scorer_stats) =>
        /\ FwdPostStat.samples <= FwdPreStat.samples + 1
        /\ FwdPostStat.total_failure <= FwdPreStat.total_failure + 1
        /\ circuits[circuit_key(fwd.provider)].failure_count
              <= fwd.pre_circuit.failure_count + 1
        /\ upstream_errors <= fwd.pre_errors + 1

(* ---------------------- claims on the end of a sync --------------------- *)
\* C33 (as claimed): when a background sync task has ended, normally or by an
\* exception at any step, the first status write included, its provider id is
\* not in the guard set: every id in _syncing belongs to a task that entered
\* the guard and has not ended, so no later task is skipped for a sync that is
\* no longer running.
C33_GuardHoldsRunningSyncsOnly ==
    \A p \in syncing :
        \E i \in DOMAIN tasks : tasks[i].id = p /\ tasks[i].pc \in PastGuard

\* C34 (as claimed): a provider row has status syncing only while a sync task
\* for it is pending or running; whatever the interleaving of
\* handle_model_not_found with a sync of the provider that comes to its end,
\* no row is left syncing with no task created or past the guard.
C34_SyncingOnlyWhileSyncRuns ==
    \A p \in DOMAIN db :
        db[p].status = "syncing" =>
            \E i \in DOMAIN tasks :
                tasks[i].id = p /\ tasks[i].pc \in PastGuard \cup {"created"}

(* ------------- claims on the provider list behind the cache ------------- *)
\* C35 (as claimed): once handle_model_not_found has removed model m from the
\* list of provider P, no get_provider_for_model call that begins afterwards
\* returns (P, m), a call served from the cached provider list within its TTL
\* included (no sync runs here, so no removed model is verified again).
C35_RemovedModelNotSelected ==
    prov_last.op = "decision" => prov_last.pair \notin gets[prov_last.call].removed

\* C36 (as claimed): a get_all that started after the last create or delete
\* had completed and cleared the cache returns the providers of the table,
\* also when an earlier get_all that missed the cache read the table before
\* that change and stored its list after the clear.
C36_NoStaleListAfterInvalidation ==
    (prov_last.op = "get_all" /\ ~gets[prov_last.call].overlapped) =>
        {gets[prov_last.call].rows[i].id : i \in DOMAIN gets[prov_last.call].rows}
            = DOMAIN db

(* ---------------------- claims on the cooldown table -------------------- *)
\* C37 (as claimed): when _is_available rewrites, after a failed probe, a
\* cooldown entry that was forced, the entry it stores is forced too.
C37_ForceSurvivesFailedProbe ==
    [][\A c \in AvailCalls :
          (/\ checks[c].pc = "probe"
           /\ checks[c].entry[1].force
           /\ AvailProbe(c, FALSE)) =>
              LET key == cooldown_key(checks[c].provider.id, checks[c].model_name)
              IN  key \in DOMAIN cooldowns' /\ cooldowns'[key].force]_vars

\* C38 (as claimed): every entry of the cooldown table has a backoff of at
\* most max_penalty_ms, and the entry penalize has just written ends at most
\* max_penalty_ms after the call, whatever duration was passed.
C38_CooldownWithinMaximum ==
    LET maximum == get_number(dispatcher_settings.max_penalty_ms, MAX_PENALTY_MS) IN
    /\ \A key \in DOMAIN cooldowns : cooldowns[key].backoffMs <= maximum
    /\ disp_last.op = "penalize" =>
          cooldowns[cooldown_key(disp_last.provider, disp_last.model_name)].until
              <= now_ms(disp_last.t) + maximum

(* ------------------ claims on the window of the limiter ----------------- *)
\* the windows a cleanup at the present time leaves, whatever _last_cleanup is
Cleaned == cleanup_if_needed(windows, now - cleanup_interval, now).windows

\* C39: for every key the checks allowed in any slot_count consecutive slots
\* number at most max_requests; a cleanup at the present time leaves every
\* count of the current window as it is, and check(key) gives the same result
\* on the cleaned windows as on the uncleaned ones.
C39_WindowNeverExceeded ==
    \A k \in LimKeys :
        /\ \A s \in LimSlots :
              SumCount(granted, k, (s - slot_count + 1)..s) <= max_requests
        /\ \A sl \in window_slots(now) : Count(Cleaned, k, sl) = Count(windows, k, sl)
        /\ check(Cleaned, now, k, now).result = check(windows, now, k, now).result

\* a check that ran the cleanup, which deleted a count, and denied the key,
\* whose max_requests allowed checks lie in two slots of the window
C39_Witness ==
    /\ lim_last.op = "check"
    /\ ~lim_last.result.allowed
    /\ now - lim_last.pre_cleanup >= cleanup_interval
    /\ \E k \in LimKeys, sl \in LimSlots :
          Count(lim_last.pre, k, sl) > 0 /\ Count(windows, k, sl) = 0
    /\ SumCount(granted, lim_last.key, window_slots(now)) = max_requests
    /\ Count(granted, lim_last.key, current_slot(now)) \in 1..(max_requests - 1)

\* C40 (as claimed): a denied check(key) returns retry_after >= 1 and
\* remaining = 0, and a check of the key retry_after seconds later, no other
\* request of the key having come in between, is allowed.
C40_RetryAfterSuffices ==
    \A k \in LimKeys :
        LET denied == check(windows, last_cleanup, k, now)
            again == check(denied.windows, denied.last_cleanup, k,
                           now + denied.result.retry_after)
        IN  ~denied.result.allowed =>
                /\ denied.result.retry_after >= 1
                /\ denied.result.remaining = 0
                /\ again.result.allowed

====
